---- MODULE Spec2Model ----
(***************************************************************************)
(* Model of the better-terminal installer: the tool registry and the      *)
(* selection filter (tools/registry.ts), the interactive prompt           *)
(* controller (utils/prompt.ts), the telemetry collector                  *)
(* (telemetry/client.ts) and the install driver (commands/install.ts).    *)
(*                                                                         *)
(* The specifications share the variables:                                *)
(*   Spec          one run of install(options), one step per await point  *)
(*   SpecFilter    direct calls of filterTools(options)                   *)
(*   SpecCommands  one run of install(options) or of update(options)      *)
(*   SpecClosure   addWithDependencies, one step per call and return      *)
(***************************************************************************)
EXTENDS Integers, Sequences, FiniteSets, TLC

VARIABLES
    pc,             \* position of install(): start, backup, loop, prompt, installer, ...
    opts,           \* InstallOptions handed to install()
    tty,            \* process.stdin.isTTY && process.stdout.isTTY
    telemetryEnv,   \* process.env.BETTER_SHELL_TELEMETRY
    selectedTools,  \* const selectedTools
    i,              \* loop index of the tool loop (1-based)
    hasController,  \* interactiveInstaller !== null
    installAll,     \* InteractiveInstaller.installAll
    skippedNames,   \* InteractiveInstaller.skippedTools (display names)
    installedTools, \* const installedTools
    failedTools,    \* const failedTools
    skippedTools,   \* const skippedTools
    telemetryTools, \* TelemetryCollector.tools
    sent,           \* statuses handed to fetch() by TelemetryCollector.send
    calls,          \* history: external invocations and answered prompts, in order
    ret,            \* what install() returned: none, true, false, threw
    exit,           \* which return statement ended install()
    request,        \* SpecFilter: the options object handed to filterTools
    filtered,       \* SpecFilter: the list filterTools returned
    fpc,            \* SpecFilter: called / returned
    log,            \* lines written through logger, in order
    network,        \* per entry of sent: the fetch is pending, ok or error
    upc,            \* position of update(): start, loop, done
    uopts,          \* UpdateOptions handed to update()
    uToolIds,       \* update: let toolIds
    uResults,       \* update: const results
    uRet,           \* what update() returned: none, true, false
    cdeps,          \* SpecClosure: the dependency declarations of the catalog
    croots,         \* SpecClosure: ids filterTools has still to pass to addWithDependencies
    cstack,         \* SpecClosure: call stack of addWithDependencies
    cresult,        \* SpecClosure: the Set `result`
    cvisits,        \* SpecClosure: calls of addWithDependencies per tool id
    cpc,            \* SpecClosure: running, returned, overflow
    recordCalls,    \* SpecCollector: history of the statuses handed to recordTool
    keysPressed,    \* SpecSession: the keys the promptInstall call in progress, or the
                    \* last one, has read
    notice,         \* the first-run telemetry notice: was the marker file there, was
                    \* the notice printed, was markTelemetryNoticeShown called
    installers,     \* the ids that have an entry in the map INSTALLERS of the build
    running,        \* the ids whose installer was called and has not settled yet
    rcall,          \* SpecRegistry: the registry function called and its argument
    rresults,       \* SpecRegistry: the calls made so far and what each returned
    canonical,      \* the elements of the module-level array TOOL_ORDER
    held,           \* SpecRegistry: the array the caller got from its last call
    argv,           \* index.ts: what parseArgs made of process.argv
    awaited,        \* index.ts: how check, backup or restore ended: none, true, false, threw
    exitCode        \* index.ts: <<>> while the process runs, <<code>> after process.exit

vars == <<pc, opts, tty, telemetryEnv, selectedTools, i, hasController, installAll,
          skippedNames, installedTools, failedTools, skippedTools, telemetryTools,
          sent, calls, ret, exit, request, filtered, fpc, log, network,
          upc, uopts, uToolIds, uResults, uRet, cdeps, croots, cstack, cresult, cvisits,
          cpc, recordCalls, notice, keysPressed, installers, running, rcall, rresults, canonical, held, argv,
          awaited, exitCode>>

inputVars == <<opts, tty, telemetryEnv, installers>>
filterVars == <<request, filtered, fpc>>
updateVars == <<upc, uopts, uToolIds, uResults, uRet>>
closureVars == <<cdeps, croots, cstack, cresult, cvisits, cpc>>
unitVars == <<recordCalls, notice, keysPressed>>
registryVars == <<rcall, rresults, canonical, held>>
cliVars == <<argv, awaited, exitCode>>
\* what install() leaves alone
besideInstall == <<filterVars, updateVars, closureVars, unitVars, registryVars, cliVars>>
installVars == <<pc, opts, tty, telemetryEnv, selectedTools, i, hasController, installAll,
                 skippedNames, installedTools, failedTools, skippedTools, telemetryTools,
                 sent, calls, ret, exit, network, installers, running>>

(***************************************************************************)
(* Bounds                                                                  *)
(***************************************************************************)
MaxToolsArg == 2    \* segments in the --tools value of an install run
MaxExcludeArg == 1  \* segments in the --exclude value of an install run
MaxInteractiveTools == 4  \* tools selected in a run that prompts (interactive on a TTY)
MaxToolsLen == 2    \* length of options.tools in a direct filterTools call
MaxExcludeLen == 1  \* length of options.exclude in a direct filterTools call
MaxUpdateArg == 2   \* segments in the --tools value of an update run
MaxUpdateTools == 2 \* tools of an update run that is not a dry run
MaxCallStack == 4   \* nested calls of addWithDependencies the call stack can hold
MaxRecordCalls == 3 \* recordTool calls made on one TelemetryCollector

(***************************************************************************)
(* Generic helpers                                                         *)
(***************************************************************************)
Range(s) == {s[k] : k \in DOMAIN s}

BSeq(S, n) == UNION {[1..k -> S] : k \in 0..n}

Includes(s, x) == \E k \in DOMAIN s : s[k] = x

RECURSIVE MapSeq(_, _)
MapSeq(Op(_), s) == IF s = <<>> THEN <<>> ELSE <<Op(Head(s))>> \o MapSeq(Op, Tail(s))

\* s is obtained from t by deleting elements
RECURSIVE IsSubsequence(_, _)
IsSubsequence(s, t) ==
    IF s = <<>> THEN TRUE
    ELSE IF t = <<>> THEN FALSE
    ELSE IF Head(s) = Head(t) THEN IsSubsequence(Tail(s), Tail(t))
    ELSE IsSubsequence(s, Tail(t))

NoDuplicates(s) == \A j, k \in DOMAIN s : s[j] = s[k] => j = k

(***************************************************************************)
(* String conversions, by table over the strings the model uses            *)
(***************************************************************************)
toLowerCase(s) ==
    CASE s = "FZF" -> "fzf"
      [] s = "NodeJS" -> "nodejs"
      [] s = "Asdf" -> "asdf"
      [] s = "TPM" -> "tpm"
      [] s = " TMUX" -> " tmux"
      [] s = "TMUX" -> "tmux"
      [] s = "Bogus" -> "bogus"
      [] s = "Y" -> "y"
      [] s = "N" -> "n"
      [] s = "A" -> "a"
      [] s = "Q" -> "q"
      [] OTHER -> s

trim(s) ==
    CASE s = " eza " -> "eza"
      [] s = " TMUX" -> "TMUX"
      [] s = " tmux" -> "tmux"
      [] s = " " -> ""
      [] OTHER -> s

(***************************************************************************)
(* tools/registry.ts                                                       *)
(***************************************************************************)
Tool(name, critical, category, minimal, dependencies) ==
    [name |-> name, critical |-> critical, category |-> category,
     minimal |-> minimal, dependencies |-> dependencies]

TOOLS ==
    ("zsh"        :> Tool("Zsh", TRUE, "core", TRUE, <<>>)) @@
    ("oh-my-zsh"  :> Tool("Oh My Zsh", TRUE, "core", TRUE, <<"zsh">>)) @@
    ("antigen"    :> Tool("Antigen", TRUE, "core", TRUE, <<"zsh", "oh-my-zsh">>)) @@
    ("fonts"      :> Tool("FiraCode Nerd Font", FALSE, "font", FALSE, <<>>)) @@
    ("fzf"        :> Tool("fzf", FALSE, "cli", TRUE, <<>>)) @@
    ("eza"        :> Tool("eza", FALSE, "cli", TRUE, <<>>)) @@
    ("carapace"   :> Tool("Carapace", FALSE, "cli", FALSE, <<>>)) @@
    ("asdf"       :> Tool("asdf", TRUE, "manager", TRUE, <<>>)) @@
    ("nodejs"     :> Tool("Node.js LTS", FALSE, "manager", TRUE, <<"asdf">>)) @@
    ("tmux"       :> Tool("tmux", FALSE, "cli", TRUE, <<>>)) @@
    ("tpm"        :> Tool("TPM (Tmux Plugin Manager)", FALSE, "manager", TRUE, <<"tmux">>))

\* mutant: nodejs is listed before asdf, the tool it depends on
TOOL_ORDER_NodeBeforeAsdf ==
    <<"zsh", "oh-my-zsh", "antigen", "fonts", "fzf", "eza", "carapace",
      "nodejs", "asdf", "tmux", "tpm">>

TOOL_ORDER ==
    <<"zsh", "oh-my-zsh", "antigen", "fonts", "fzf", "eza", "carapace",
      "asdf", "nodejs", "tmux", "tpm">>

ToolIds == DOMAIN TOOLS

\* Array.prototype.filter over a list of ids
FilterIds(ids, Keep(_)) == SelectSeq(ids, Keep)

RECURSIVE addWithDependencies(_, _)
RECURSIVE addDependencyList(_, _)
\* mutant: only the first declared dependency is followed
addDependencyList_FirstOnly(deps, result) ==
    IF deps = <<>> THEN result ELSE addWithDependencies(Head(deps), result)

\* the loop `for (const dep of tool.dependencies || [])`
addDependencyList(deps, result) ==
    IF deps = <<>> THEN result
    ELSE addDependencyList(Tail(deps), addWithDependencies(Head(deps), result))

\* mutant: the tool is added without its dependencies
addWithDependencies_NoDeps(toolId, result) ==
    IF toolId \notin ToolIds THEN result ELSE result \cup {toolId}

addWithDependencies(toolId, result) ==
    IF toolId \notin ToolIds THEN result
    ELSE addDependencyList(TOOLS[toolId].dependencies, result) \cup {toolId}

\* the loop `for (const id of toolIds) addWithDependencies(id, withDeps)`
RECURSIVE addAll(_, _)
addAll(ids, result) ==
    IF ids = <<>> THEN result
    ELSE addAll(Tail(ids), addWithDependencies(Head(ids), result))

\* mutant: the requested ids are kept in the order of the request
filterByTools_RequestOrder(toolIds, options) ==
    IF Len(options.tools) > 0
    THEN LET Known(id) == id \in ToolIds
         IN SelectSeq(MapSeq(toLowerCase, options.tools), Known)
    ELSE toolIds

\* "Filter by --tools flag": restrict to the requested ids, add the
\* dependencies, project onto TOOL_ORDER
filterByTools(toolIds, options) ==
    IF Len(options.tools) > 0
    THEN LET requestedTools == {toLowerCase(t) : t \in Range(options.tools)}
             InRequested(id) == id \in requestedTools
             withDeps == addAll(FilterIds(toolIds, InRequested), {})
             InWithDeps(id) == id \in withDeps
         IN FilterIds(TOOL_ORDER, InWithDeps)
    ELSE toolIds

\* mutant: --minimal is ignored when an explicit tool list is given
filterByMinimal_OnlyDefault(toolIds, options) ==
    LET IsMinimal(id) == TOOLS[id].minimal
    IN IF options.minimal /\ Len(options.tools) = 0
       THEN FilterIds(toolIds, IsMinimal) ELSE toolIds

\* "Filter by --minimal flag"
filterByMinimal(toolIds, options) ==
    LET IsMinimal(id) == TOOLS[id].minimal
    IN IF options.minimal THEN FilterIds(toolIds, IsMinimal) ELSE toolIds

\* mutant: dependency-aware exclusion, the dependents of an excluded tool go too
filterByExclude_Dependents(toolIds, options) ==
    LET excludeSet == {toLowerCase(t) : t \in Range(options.exclude)}
        Kept(id) == /\ id \notin excludeSet
                    /\ Range(TOOLS[id].dependencies) \cap excludeSet = {}
    IN IF Len(options.exclude) > 0 THEN FilterIds(toolIds, Kept) ELSE toolIds

\* "Filter by --exclude flag"
filterByExclude(toolIds, options) ==
    LET excludeSet == {toLowerCase(t) : t \in Range(options.exclude)}
        NotExcluded(id) == id \notin excludeSet
    IN IF Len(options.exclude) > 0 THEN FilterIds(toolIds, NotExcluded) ELSE toolIds

\* options = [tools, exclude: sequences of strings (<<>> for undefined), minimal: BOOLEAN]
filterTools(options) ==
    filterByExclude(filterByMinimal(filterByTools(TOOL_ORDER, options), options), options)

\* segments = input.split(',')
parseToolList(segments) ==
    LET TrimLower(t) == toLowerCase(trim(t))
        NonEmpty(t) == t # ""
    IN SelectSeq(MapSeq(TrimLower, segments), NonEmpty)

\* part_001 227: TOOLS is an object literal, so TOOLS[key] also finds what
\* the literal inherits from Object.prototype; three of the inherited keys
ObjectPrototypeKeys == {"constructor", "__proto__", "toString"}

\* `TOOLS[id]` is truthy: a tool of the catalog, or an inherited property
hasEntry(id) == id \in ToolIds \cup ObjectPrototypeKeys

\* `TOOLS[id].name` as a template or join prints it: the tool's name; the
\* name of the function Object or toString; nothing for Object.prototype,
\* which has no name
entryName(id) ==
    CASE id \in ToolIds -> TOOLS[id].name
      [] id = "constructor" -> "Object"
      [] id = "toString" -> "toString"
      [] id = "__proto__" -> ""

\* part_001 425-438: valid: the ids for which TOOLS[id] is truthy; invalid:
\* the others
validateToolIds(toolIds) ==
    LET Known(id) == hasEntry(id)
        Unknown(id) == ~hasEntry(id)
    IN [valid |-> SelectSeq(toolIds, Known), invalid |-> SelectSeq(toolIds, Unknown)]

\* part_001 227-331: description and changes of each tool
DETAILS ==
    ("zsh" :> [description |-> "Modern shell with better scripting and autocompletion",
           changes |-> <<"Installs zsh via package manager", "Sets zsh as default shell">>]) @@
    ("oh-my-zsh" :> [description |-> "Framework for managing zsh configuration",
           changes |-> <<"Installs to ~/.oh-my-zsh", "Creates initial ~/.zshrc">>]) @@
    ("antigen" :> [description |-> "Plugin manager for zsh",
           changes |-> <<"Downloads to ~/antigen.zsh", "Enables plugin management">>]) @@
    ("fonts" :> [description |-> "Programming font with ligatures and icons",
           changes |-> <<"Installs FiraCode Nerd Font", "Required for icons in terminal">>]) @@
    ("fzf" :> [description |-> "Fuzzy finder for files, history, and more",
           changes |-> <<"Installs fzf binary", "Enables Ctrl+R history search", "Adds key bindings">>]) @@
    ("eza" :> [description |-> "Modern replacement for ls with icons and git status",
           changes |-> <<"Installs eza binary", "Adds lsx alias">>]) @@
    ("carapace" :> [description |-> "Multi-shell completion generator",
           changes |-> <<"Installs carapace binary", "Enables completions for 300+ commands">>]) @@
    ("asdf" :> [description |-> "Version manager for multiple runtimes (Node, Python, etc)",
           changes |-> <<"Installs to ~/.asdf", "Adds shell integration">>]) @@
    ("nodejs" :> [description |-> "JavaScript runtime (latest LTS version)",
           changes |-> <<"Installs via asdf", "Sets as global default">>]) @@
    ("tmux" :> [description |-> "Terminal multiplexer for split panes and sessions",
           changes |-> <<"Installs tmux via package manager", "Creates ~/.tmux.conf">>]) @@
    ("tpm" :> [description |-> "Plugin manager for tmux",
           changes |-> <<"Installs to ~/.tmux/plugins/tpm", "Enables tmux plugins">>])

\* part_001 350-361: throws when TOOLS[toolId] is falsy, otherwise returns
\* four properties of what TOOLS[toolId] is; the function Object and
\* Object.prototype have no description, changes or critical
getToolPromptInfo(toolId) ==
    IF ~hasEntry(toolId)
    THEN [threw |-> TRUE, message |-> "Unknown tool"]
    ELSE IF toolId \in ToolIds
    THEN [threw |-> FALSE, name |-> TOOLS[toolId].name,
          description |-> DETAILS[toolId].description,
          changes |-> DETAILS[toolId].changes, critical |-> TOOLS[toolId].critical]
    ELSE [threw |-> FALSE, name |-> entryName(toolId), description |-> "undefined",
          changes |-> "undefined", critical |-> "undefined"]

\* mutant: the canonical array itself is returned
getAllToolIds_SameArray(order) == [shared |-> TRUE, content |-> order, touched |-> FALSE]

\* part_001 443-445: `return [...TOOL_ORDER]`, a new array with the elements
\* the canonical array has at the time of the call
getAllToolIds(order) == [shared |-> FALSE, content |-> order, touched |-> FALSE]

(***************************************************************************)
(* SpecFilter: direct calls of filterTools                                 *)
(***************************************************************************)
\* strings a caller may put in options.tools / options.exclude
FilterTokens ==
    {"zsh", "antigen", "fonts", "fzf", "eza", "asdf", "nodejs", "NodeJS", "tpm", "TPM",
     "bogus"}

NoRequest == [tools |-> <<>>, exclude |-> <<>>, minimal |-> FALSE]

\* update() is not called
UpdateIdle ==
    /\ upc = "idle"
    /\ uopts = [tools |-> <<>>, dryRun |-> FALSE]
    /\ uToolIds = <<>>
    /\ uResults = <<>>
    /\ uRet = "none"

\* addWithDependencies is not stepped
ClosureIdle ==
    /\ cdeps = <<>>
    /\ croots = <<>>
    /\ cstack = <<>>
    /\ cresult = {}
    /\ cvisits = <<>>
    /\ cpc = "idle"

\* filterTools is not called directly
FilterIdle ==
    /\ request = NoRequest
    /\ filtered = <<>>
    /\ fpc = "unused"

\* index.ts 86-100: the values and positionals of a command line that names
\* `name` and nothing else the dispatch looks at
CommandLine(name) ==
    [command |-> name, help |-> FALSE, version |-> FALSE, options |-> FALSE, path |-> FALSE]

\* main is running the command `name`
Dispatched(name) ==
    /\ argv = CommandLine(name)
    /\ awaited = "none"
    /\ exitCode = <<>>

\* the function under study is called directly, not through main
CliIdle == Dispatched("none")

\* no registry function is called
NoCall == [fn |-> "none", arg |-> <<>>]

\* the caller holds no array
NoArray == [shared |-> FALSE, content |-> <<>>, touched |-> TRUE]

\* no function is called on its own
\* ~/.config/better-shell/.telemetry-notice-shown exists: not a first run
NoticeSeenBefore == [seen |-> TRUE, shown |-> FALSE, marked |-> FALSE]

UnitIdle ==
    /\ recordCalls = <<>>
    /\ notice = NoticeSeenBefore
    /\ keysPressed = <<>>
    /\ rcall = NoCall
    /\ rresults = <<>>
    /\ canonical = TOOL_ORDER
    /\ held = NoArray

\* mutant: a build without an installer for asdf
INSTALLERS_WithoutAsdf ==
    {"zsh", "oh-my-zsh", "antigen", "fonts", "fzf", "eza", "carapace",
     "nodejs", "tmux", "tpm"}

\* install.ts 55-67: ids that have an entry in INSTALLERS
INSTALLERS ==
    {"zsh", "oh-my-zsh", "antigen", "fonts", "fzf", "eza", "carapace",
     "asdf", "nodejs", "tmux", "tpm"}

\* install() is not called
Idle ==
    /\ log = <<>>
    /\ network = <<>>
    /\ pc = "idle"
    /\ opts = [skipBackup |-> FALSE, dryRun |-> FALSE, interactive |-> FALSE,
               minimal |-> FALSE, tools |-> <<>>, exclude |-> <<>>, noTelemetry |-> FALSE]
    /\ tty = FALSE
    /\ telemetryEnv = "unset"
    /\ selectedTools = <<>>
    /\ i = 1
    /\ hasController = FALSE
    /\ installAll = FALSE
    /\ skippedNames = <<>>
    /\ installedTools = <<>>
    /\ failedTools = <<>>
    /\ skippedTools = <<>>
    /\ telemetryTools = <<>>
    /\ sent = <<>>
    /\ calls = <<>>
    /\ ret = "none"
    /\ exit = "none"
    /\ installers = INSTALLERS
    /\ running = {}

InitFilter ==
    /\ Idle
    /\ UnitIdle
    /\ CliIdle
    /\ UpdateIdle
    /\ ClosureIdle
    /\ request \in [tools : BSeq(FilterTokens, MaxToolsLen),
                    exclude : BSeq(FilterTokens, MaxExcludeLen),
                    minimal : BOOLEAN]
    /\ filtered = <<>>
    /\ fpc = "called"

CallFilterTools ==
    /\ fpc = "called"
    /\ filtered' = filterTools(request)
    /\ fpc' = "returned"
    /\ UNCHANGED <<installVars, unitVars, registryVars, cliVars, updateVars, closureVars, log,
                   request>>

NextFilter == CallFilterTools

SpecFilter == InitFilter /\ [][NextFilter]_vars

(***************************************************************************)
(* utils/prompt.ts                                                         *)
(***************************************************************************)
CtrlC == "^C"   \* the character \u0003

\* keys the user may press
Keys == {"y", "Y", "\r", "\n", "n", "N", "a", "A", "q", "Q", CtrlC, "x"}

\* mutant: the key is compared as typed
readKeypress_CaseSensitive(key) == key

\* readKeypress resolves with key.toLowerCase()
readKeypress(key) == toLowerCase(key)

\* one round of the `while (true)` loop of promptInstall: the choice the
\* key stands for, or "waiting" when the key is not recognised
promptInstall(key) ==
    CASE key = CtrlC -> "quit"
      [] key \in {"y", "\r", "\n"} -> "yes"
      [] key = "n" -> "no"
      [] key = "a" -> "all"
      [] key = "q" -> "quit"
      [] OTHER -> "waiting"

\* mutant: the session hands out its own list
getSkippedTools_SameList(list) == [shared |-> TRUE, content |-> list, touched |-> FALSE]

\* prompt.ts 196-198: [...this.skippedTools], a new array with the same entries
getSkippedTools(list) == [shared |-> FALSE, content |-> list, touched |-> FALSE]

\* mutant: quit is treated like a negative answer
shouldInstall_QuitIsNo(choice) ==
    CASE choice \in {"yes", "all"} -> "true"
      [] choice \in {"no", "quit"} -> "false"

\* InteractiveInstaller.shouldInstall for an answered prompt: what the call
\* gives back to install ("throw" is InteractiveQuitError)
shouldInstall(choice) ==
    CASE choice \in {"yes", "all"} -> "true"
      [] choice = "no" -> "false"
      [] choice = "quit" -> "throw"

\* mutant: the latch is not consulted
shouldPrompt_IgnoreLatch == hasController /\ tty

\* a keypress is awaited for the current tool: there is a controller, its
\* latch is not set (prompt.ts 174) and promptInstall sees a TTY (prompt.ts 51)
shouldPrompt == hasController /\ ~installAll /\ tty

(***************************************************************************)
(* telemetry/client.ts                                                     *)
(***************************************************************************)
\* mutant: any value of the variable switches telemetry off
isTelemetryDisabledByEnv_AnyValue == telemetryEnv # "unset"

isTelemetryDisabledByEnv == telemetryEnv \in {"0", "false", "off"}

\* const telemetryEnabled, kept by the collector as this.enabled
telemetryEnabled == ~opts.noTelemetry /\ ~isTelemetryDisabledByEnv /\ ~opts.dryRun

\* mutant: the `enabled` guard is missing
recordTool_NoGuard(tools, toolId, status) ==
    Append(tools, [toolId |-> toolId, status |-> status])

\* this.tools after recordTool(toolId, status)
recordTool(tools, toolId, status) ==
    IF ~telemetryEnabled THEN tools
    ELSE Append(tools, [toolId |-> toolId, status |-> status])

\* mutant: every final status is reported as "failed"
send_AlwaysFailed(status) ==
    IF ~telemetryEnabled THEN sent ELSE Append(sent, "failed")

\* the statuses posted so far, after send(status)
send(status) ==
    IF ~telemetryEnabled THEN sent ELSE Append(sent, status)

(***************************************************************************)
(* commands/install.ts                                                     *)
(***************************************************************************)
\* mutant: a failed installer never aborts the run
abortsOnFailure_Never(tool) == FALSE

\* mutant: every failed installer aborts the run
abortsOnFailure_Always(tool) == TRUE

\* line 235: `if (tool.critical)` after a failed installer
abortsOnFailure(tool) == tool.critical

\* mutant: a declined tool never aborts the run
abortsOnDecline_Never(tool) == FALSE

\* line 215: `if (tool.critical)` after a negative answer
abortsOnDecline(tool) == tool.critical

Call(kind, id, result) == [kind |-> kind, id |-> id, result |-> result]

\* Object.keys(TOOLS).find((id) => TOOLS[id].name === toolName), as a list
\* holding the first match or nothing
findToolIdByName(toolName) ==
    LET HasName(id) == TOOLS[id].name = toolName
        matches == SelectSeq(TOOL_ORDER, HasName)
    IN IF matches = <<>> THEN <<>> ELSE <<Head(matches)>>

\* lines 251-257: the names skipped at the prompt, resolved to ids, recorded
RECURSIVE recordSkippedNames(_, _)
recordSkippedNames(tools, names) ==
    IF names = <<>> THEN tools
    ELSE LET found == findToolIdByName(Head(names))
             next == IF found = <<>> THEN tools
                     ELSE recordTool(tools, found[1], "skipped")
         IN recordSkippedNames(next, Tail(names))

\* lines 262-265: every entry of skippedTools that is a catalog id, recorded
RECURSIVE recordSkippedIds(_, _)
recordSkippedIds(tools, ids) ==
    IF ids = <<>> THEN tools
    ELSE LET next == IF ~hasEntry(Head(ids)) THEN tools
                     ELSE recordTool(tools, Head(ids), "skipped")
         IN recordSkippedIds(next, Tail(ids))

\* tokens of the comma-separated --tools and --exclude values of a run
ToolsTokens == {"NodeJS", " eza ", "antigen", "Bogus"}
ExcludeTokens == {"asdf", "bogus"}
TelemetryEnvValues == {"unset", "off"}

\* the selection install computes from its options (lines 115-141)
selectionOf(options) ==
    filterTools([tools |-> parseToolList(options.tools),
                 exclude |-> parseToolList(options.exclude),
                 minimal |-> options.minimal])

Init ==
    /\ pc = "start"
    /\ opts \in [skipBackup : BOOLEAN, dryRun : BOOLEAN, interactive : BOOLEAN,
                 minimal : BOOLEAN, noTelemetry : BOOLEAN,
                 tools : BSeq(ToolsTokens, MaxToolsArg),
                 exclude : BSeq(ExcludeTokens, MaxExcludeArg)]
    /\ tty \in BOOLEAN
    /\ (opts.interactive /\ tty) => Len(selectionOf(opts)) <= MaxInteractiveTools
    /\ telemetryEnv \in TelemetryEnvValues
    /\ selectedTools = <<>>
    /\ i = 1
    /\ hasController = FALSE
    /\ installAll = FALSE
    /\ skippedNames = <<>>
    /\ installedTools = <<>>
    /\ failedTools = <<>>
    /\ skippedTools = <<>>
    /\ telemetryTools = <<>>
    /\ sent = <<>>
    /\ calls = <<>>
    /\ ret = "none"
    /\ exit = "none"
    /\ log = <<>>
    /\ network = <<>>
    /\ installers = INSTALLERS
    /\ running = {}
    /\ FilterIdle
    /\ UpdateIdle
    /\ ClosureIdle
    /\ UnitIdle
    /\ Dispatched("install")

\* one line written through logger: its level, its fixed text, the tool
\* names or ids interpolated into it, and the step number of a plan line
LogLine(level, text, ids, n) == [level |-> level, text |-> text, ids |-> ids, n |-> n]

\* TOOLS[id].name
NameOf(id) == TOOLS[id].name

\* line 297: TOOLS[id]?.name || id
displayName(id) == IF hasEntry(id) /\ entryName(id) # "" THEN entryName(id) ELSE id

\* lines 121-122 and 130-131: the unknown ids, then the valid ids
unknownIdsReport(text, invalid) ==
    <<LogLine("error", text, invalid, 0),
      LogLine("info", "Available tools", TOOL_ORDER, 0)>>

\* lines 152-167: the plan a dry run prints instead of installing
dryRunPlan(selected) ==
    LET first == IF opts.skipBackup THEN 1 ELSE 2
        last == first + Len(selected)
    IN (IF ~opts.skipBackup
        THEN <<LogLine("dim", "Backup existing configurations", <<>>, 1)>>
        ELSE <<>>)
       \o [k \in 1..Len(selected) |->
              LogLine("dim", "Install", <<NameOf(selected[k])>>, first + k - 1)]
       \o <<LogLine("dim", "Write configuration files", <<>>, last)>>
       \o (IF Includes(selected, "zsh")
           THEN <<LogLine("dim", "Set zsh as default shell", <<>>, last + 1)>>
           ELSE <<>>)

\* mutant: the summary lists ids where the code lists display names
Summary_ByIds ==
    (IF Len(installedTools) > 0
     THEN <<LogLine("info", "Installed", installedTools, 0)>> ELSE <<>>)
    \o (IF Len(skippedTools) > 0
        THEN <<LogLine("dim", "Skipped", skippedTools, 0)>> ELSE <<>>)
    \o (IF Len(failedTools) > 0
        THEN <<LogLine("warn", "Failed", failedTools, 0)>> ELSE <<>>)

\* lines 292-302: the summary of a run
Summary ==
    (IF Len(installedTools) > 0
     THEN <<LogLine("info", "Installed", MapSeq(NameOf, installedTools), 0)>> ELSE <<>>)
    \o (IF Len(skippedTools) > 0
        THEN <<LogLine("dim", "Skipped", MapSeq(displayName, skippedTools), 0)>> ELSE <<>>)
    \o (IF Len(failedTools) > 0
        THEN <<LogLine("warn", "Failed", MapSeq(NameOf, failedTools), 0)>> ELSE <<>>)

\* mutant: the controller is created whenever --interactive is given
createsController_IgnoresTTY == opts.interactive

\* line 172: `interactive && isTTY() ? new InteractiveInstaller() : null`
createsController == opts.interactive /\ tty

\* prompt.ts 49-53: without a TTY promptInstall returns 'yes' before it
\* writes the prompt or reads a key
promptInstallFrom(isTty, key) == IF ~isTty THEN "yes" ELSE promptInstall(key)

\* mutant: the dry-run branch is never taken
isDryRun_Never == FALSE

\* line 151: `if (dryRun)`
isDryRun == opts.dryRun

\* mutant: the backup step is never taken
needsBackup_Never == FALSE

\* line 176: `if (!skipBackup)`
needsBackup == ~opts.skipBackup

\* mutant: the lookup in INSTALLERS is not tested
hasNoInstaller_Untested(toolId) == FALSE

\* lines 201-203: `const installer = INSTALLERS[toolId]; if (!installer)`
hasNoInstaller(toolId) == toolId \notin installers

\* line 230: `installer()` is called
called(inFlight, toolId) == inFlight \cup {toolId}

\* mutant: the loop goes on without awaiting the installer
settled_NotAwaited(inFlight, toolId) == inFlight

\* line 230: `await installer()`: the loop goes on once the promise of the
\* installer has settled
settled(inFlight, toolId) == inFlight \ {toolId}

\* mutant: the loop is left after its first round
loopFinished_AfterFirst == i > 1

\* line 198: the loop condition `i < selectedTools.length` no longer holds
loopFinished == i > Len(selectedTools)

\* client.ts 158: after send(status) a fetch is in flight if send got past
\* its `enabled` test
dispatch == IF ~telemetryEnabled THEN network ELSE Append(network, "pending")

\* mutant: a rejected fetch reaches the caller of send
onFetchSettled_Propagates(outcome, returned) ==
    IF outcome = "error" THEN "threw" ELSE returned

\* client.ts 158-167: the promise of fetch is not awaited and its rejection
\* is swallowed, so what install returned stays what it was
onFetchSettled(outcome, returned) == returned

\* mutant: install goes on after a return statement
Return_KeepsRunning(value, site) ==
    /\ ret' = value
    /\ exit' = site
    /\ UNCHANGED pc

\* install() returns (or rejects): nothing else of the run changes
Return(value, site) ==
    /\ pc' = "done"
    /\ ret' = value
    /\ exit' = site

\* mutant: an empty selection is not noticed
noToolsSelected_Never(selected) == FALSE

\* line 143: selectedTools.length === 0
noToolsSelected(selected) == Len(selected) = 0

\* lines 69-172: options, validation, selection, dry run, controller
Start ==
    /\ pc = "start"
    /\ LET toolsToInstall == parseToolList(opts.tools)
           toolsToExclude == parseToolList(opts.exclude)
           selected == selectionOf(opts)
       IN IF Len(toolsToInstall) > 0 /\ validateToolIds(toolsToInstall).invalid # <<>>
          THEN /\ log' = log \o unknownIdsReport("Unknown tools",
                                                 validateToolIds(toolsToInstall).invalid)
               /\ Return("false", "UnknownTools")
               /\ UNCHANGED <<selectedTools, hasController>>
          ELSE IF Len(toolsToExclude) > 0 /\ validateToolIds(toolsToExclude).invalid # <<>>
          THEN /\ log' = log \o unknownIdsReport("Unknown tools to exclude",
                                                 validateToolIds(toolsToExclude).invalid)
               /\ Return("false", "UnknownExclude")
               /\ UNCHANGED <<selectedTools, hasController>>
          ELSE IF noToolsSelected(selected)
          THEN /\ log' = Append(log, LogLine("error", "No tools selected for installation",
                                             <<>>, 0))
               /\ Return("false", "NothingSelected")
               /\ selectedTools' = selected
               /\ UNCHANGED hasController
          ELSE IF isDryRun
          THEN /\ log' = log \o dryRunPlan(selected)
               /\ Return("true", "DryRun")
               /\ selectedTools' = selected
               /\ UNCHANGED hasController
          ELSE /\ selectedTools' = selected
               /\ hasController' = createsController
               /\ pc' = IF needsBackup THEN "backup" ELSE "loop"
               /\ UNCHANGED <<ret, exit, log>>
    /\ UNCHANGED <<inputVars, besideInstall, running, i, installAll,
                   skippedNames, installedTools, failedTools, skippedTools,
                   telemetryTools, sent, network, calls>>

\* lines 176-184: configWriter.backup
Backup(success) ==
    /\ pc = "backup"
    /\ calls' = Append(calls, Call("backup", "", IF success THEN "ok" ELSE "fail"))
    /\ IF ~success
       THEN /\ log' = Append(log, LogLine("error", "Backup failed. Aborting installation.",
                                          <<>>, 0))
            /\ Return("false", "BackupFailed")
       ELSE pc' = "loop" /\ UNCHANGED <<ret, exit, log>>
    /\ UNCHANGED <<inputVars, besideInstall, running, selectedTools, i,
                   hasController, installAll, skippedNames, installedTools, failedTools,
                   skippedTools, telemetryTools, sent, network>>

\* lines 198-212: head of one round of the tool loop, up to the keypress
\* or the installer call
LoopNext ==
    /\ pc = "loop"
    /\ ~loopFinished
    /\ LET toolId == selectedTools[i]
       IN IF hasNoInstaller(toolId)
          THEN /\ log' = Append(log, LogLine("warn", "No installer found, skipping...",
                                             <<TOOLS[toolId].name>>, 0))
               /\ skippedTools' = Append(skippedTools, toolId)
               /\ i' = i + 1
               /\ UNCHANGED <<pc, running>>
          ELSE /\ pc' = IF shouldPrompt THEN "prompt" ELSE "installer"
               /\ running' = IF shouldPrompt THEN running ELSE called(running, toolId)
               /\ UNCHANGED <<skippedTools, i, log>>
    /\ UNCHANGED <<inputVars, besideInstall, selectedTools,
                   hasController, installAll, skippedNames, installedTools, failedTools,
                   telemetryTools, sent, network, calls, ret, exit>>

\* prompt.ts 83-111 and 179-193, install.ts 214-226 and 325-331: the user
\* presses a key at the prompt for selectedTools[i]
Prompt(pressed) ==
    /\ pc = "prompt"
    /\ LET toolId == selectedTools[i]
           tool == TOOLS[toolId]
           choice == promptInstall(readKeypress(pressed))
       IN IF choice = "waiting"
          THEN UNCHANGED <<pc, i, installAll, skippedNames, skippedTools, sent, network,
                           calls, ret, exit, log, running>>
          ELSE /\ calls' = Append(calls, Call("prompt", toolId, choice))
               /\ installAll' = (installAll \/ choice = "all")
               /\ skippedNames' = IF choice = "no"
                                  THEN Append(skippedNames, tool.name)
                                  ELSE skippedNames
               /\ CASE shouldInstall(choice) = "throw" ->
                         /\ log' = Append(log, LogLine("warn",
                                              "Installation cancelled by user.", <<>>, 0))
                         /\ sent' = send("cancelled")
                         /\ network' = dispatch
                         /\ Return("false", "CancelledByUser")
                         /\ UNCHANGED <<i, skippedTools, running>>
                    [] shouldInstall(choice) = "true" ->
                         /\ pc' = "installer"
                         /\ running' = called(running, toolId)
                         /\ UNCHANGED <<i, skippedTools, sent, network, ret, exit, log>>
                    [] shouldInstall(choice) = "false" ->
                         /\ IF abortsOnDecline(tool)
                            THEN /\ log' = Append(log, LogLine("error",
                                                "is required. Aborting installation.",
                                                <<tool.name>>, 0))
                                 /\ Return("false", "CriticalDeclined")
                                 /\ UNCHANGED <<i, skippedTools>>
                            ELSE /\ skippedTools' = Append(skippedTools, toolId)
                                 /\ i' = i + 1
                                 /\ pc' = "loop"
                                 /\ UNCHANGED <<ret, exit, log>>
                         /\ UNCHANGED <<sent, network, running>>
    /\ UNCHANGED <<inputVars, besideInstall, selectedTools,
                   hasController, installedTools, failedTools, telemetryTools>>

\* lines 228-245: the installer of selectedTools[i] returns true or false,
\* or throws
RunInstaller(outcome) ==
    /\ pc = "installer"
    /\ LET toolId == selectedTools[i]
           tool == TOOLS[toolId]
       IN /\ calls' = Append(calls, Call("installer", toolId, outcome))
          /\ running' = settled(running, toolId)
          /\ CASE outcome = "throw" ->
                    /\ Return("threw", "Exception")
                    /\ UNCHANGED <<i, installedTools, failedTools, telemetryTools, sent,
                                   network, log>>
               [] outcome = "fail" ->
                    /\ telemetryTools' = recordTool(telemetryTools, toolId, "failed")
                    /\ IF abortsOnFailure(tool)
                       THEN /\ log' = Append(log, LogLine("error",
                                                 "Failed to install. Aborting.",
                                                 <<tool.name>>, 0))
                            /\ sent' = send("failed")
                            /\ network' = dispatch
                            /\ Return("false", "CriticalFailed")
                            /\ UNCHANGED <<i, failedTools>>
                       ELSE /\ log' = Append(log, LogLine("warn",
                                                 "Failed to install, continuing...",
                                                 <<tool.name>>, 0))
                            /\ failedTools' = Append(failedTools, toolId)
                            /\ i' = i + 1
                            /\ pc' = "loop"
                            /\ UNCHANGED <<sent, network, ret, exit>>
                    /\ UNCHANGED installedTools
               [] outcome = "ok" ->
                    /\ telemetryTools' = recordTool(telemetryTools, toolId, "installed")
                    /\ installedTools' = Append(installedTools, toolId)
                    /\ i' = i + 1
                    /\ pc' = "loop"
                    /\ UNCHANGED <<failedTools, sent, network, ret, exit, log>>
    /\ UNCHANGED <<inputVars, besideInstall, selectedTools,
                   hasController, installAll, skippedNames, skippedTools>>

\* lines 248-265: after the loop the prompt's skip list is merged into
\* skippedTools and the skipped tools are recorded
LoopEnd ==
    /\ pc = "loop"
    /\ loopFinished
    /\ LET interactiveSkipped == IF hasController THEN skippedNames ELSE <<>>
           merged == skippedTools \o interactiveSkipped
       IN /\ skippedTools' = merged
          /\ telemetryTools' =
                 recordSkippedIds(recordSkippedNames(telemetryTools, interactiveSkipped),
                                  merged)
    /\ pc' = "writeConfigs"
    /\ UNCHANGED <<inputVars, besideInstall, running, selectedTools, i,
                   hasController, installAll, skippedNames, installedTools, failedTools,
                   sent, network, calls, ret, exit, log>>

\* lines 292-324: the summary, telemetry.send('completed'), return true
Complete ==
    /\ log' = log \o Summary
    /\ sent' = send("completed")
    /\ network' = dispatch
    /\ Return("true", "Completed")

\* lines 272-284: configWriter.writeConfigs
WriteConfigs(success) ==
    /\ pc = "writeConfigs"
    /\ calls' = Append(calls, Call("writeConfigs", "", IF success THEN "ok" ELSE "fail"))
    /\ IF ~success
       THEN /\ log' = Append(log, LogLine("error",
                                 "Failed to write configuration files. Aborting.", <<>>, 0))
            /\ Return("false", "ConfigWriteFailed")
            /\ UNCHANGED <<sent, network>>
       ELSE IF Includes(installedTools, "zsh") \/ Includes(selectedTools, "zsh")
       THEN pc' = "setZsh" /\ UNCHANGED <<sent, network, ret, exit, log>>
       ELSE Complete
    /\ UNCHANGED <<inputVars, besideInstall, running, selectedTools, i,
                   hasController, installAll, skippedNames, installedTools, failedTools,
                   skippedTools, telemetryTools>>

\* lines 280-324: setZshAsDefault, then the summary and the final status
SetZshAsDefault ==
    /\ pc = "setZsh"
    /\ calls' = Append(calls, Call("setZshAsDefault", "", "ok"))
    /\ Complete
    /\ UNCHANGED <<inputVars, besideInstall, running, selectedTools, i,
                   hasController, installAll, skippedNames, installedTools, failedTools,
                   skippedTools, telemetryTools>>

\* client.ts 158-167: the fetch dispatched by the k-th send settles, at any
\* time after send returned; a fetch that never settles stays pending
NetworkSettles(k, outcome) ==
    /\ k \in 1..Len(network)
    /\ network[k] = "pending"
    /\ exitCode = <<>>
    /\ network' = [network EXCEPT ![k] = outcome]
    /\ ret' = onFetchSettled(outcome, ret)
    /\ UNCHANGED <<inputVars, besideInstall, running, pc, selectedTools, i,
                   hasController, installAll, skippedNames, installedTools, failedTools,
                   skippedTools, telemetryTools, sent, calls, exit, log>>

Next ==
    \/ Start
    \/ \E success \in BOOLEAN : Backup(success)
    \/ LoopNext
    \/ \E pressed \in Keys : Prompt(pressed)
    \/ \E outcome \in {"ok", "fail", "throw"} : RunInstaller(outcome)
    \/ LoopEnd
    \/ \E success \in BOOLEAN : WriteConfigs(success)
    \/ SetZshAsDefault
    \/ \E k \in DOMAIN network, outcome \in {"ok", "error"} : NetworkSettles(k, outcome)

Spec == Init /\ [][Next]_vars

(***************************************************************************)
(* Properties of the selection filter (checked under SpecFilter)           *)
(***************************************************************************)
DirectDeps(id) == Range(TOOLS[id].dependencies)

\* least set that contains S and the declared dependencies of its members
RECURSIVE DependencyClosure(_)
DependencyClosure(S) ==
    LET T == S \cup UNION {DirectDeps(id) : id \in S}
    IN IF T = S THEN S ELSE DependencyClosure(T)

RequestedIds == {toLowerCase(t) : t \in Range(request.tools)} \cap ToolIds
ExcludedIds == {toLowerCase(t) : t \in Range(request.exclude)}

\* C3: with an explicit tool list and neither minimal nor exclude, filterTools
\* returns exactly the requested catalog tools and their transitive
\* dependencies ({nodejs} gives [asdf, nodejs]; {fzf, eza} gives exactly
\* those two).
C3_ExplicitListIsDependencyClosure ==
    (fpc = "returned" /\ Len(request.tools) > 0 /\ ~request.minimal /\ request.exclude = <<>>)
    => /\ Range(filtered) = DependencyClosure(RequestedIds)
       /\ request.tools = <<"nodejs">> => filtered = <<"asdf", "nodejs">>
       /\ request.tools = <<"fzf", "eza">> => filtered = <<"fzf", "eza">>

C3_Witness ==
    /\ fpc = "returned"
    /\ request = [tools |-> <<"antigen">>, exclude |-> <<>>, minimal |-> FALSE]
    /\ filtered = <<"zsh", "oh-my-zsh", "antigen">>

\* C4: for every request the result is a subsequence of TOOL_ORDER (catalog
\* ids only, no id twice, canonical relative order); the empty request gives
\* the whole TOOL_ORDER.
C4_ResultIsSubsequenceOfToolOrder ==
    fpc = "returned"
    => /\ IsSubsequence(filtered, TOOL_ORDER)
       /\ Range(filtered) \subseteq ToolIds
       /\ NoDuplicates(filtered)
       /\ request = NoRequest => filtered = TOOL_ORDER

C4_Witness ==
    /\ fpc = "returned"
    /\ request = [tools |-> <<"tpm", "zsh">>, exclude |-> <<>>, minimal |-> FALSE]
    /\ filtered = <<"zsh", "tmux", "tpm">>

\* C5: exclusion is applied last and is not dependency-aware: no excluded id
\* is in the result, and every other id selected by the same request without
\* the exclude list stays ({nodejs} excluding {asdf} gives [nodejs]).
C5_ExcludeAppliedLast ==
    fpc = "returned"
    => /\ Range(filtered) \cap ExcludedIds = {}
       /\ Range(filtered) =
              Range(filterTools([request EXCEPT !.exclude = <<>>])) \ ExcludedIds
       /\ (request.tools = <<"nodejs">> /\ request.exclude = <<"asdf">> /\ ~request.minimal)
              => filtered = <<"nodejs">>

C5_Witness ==
    /\ fpc = "returned"
    /\ request = [tools |-> <<"nodejs">>, exclude |-> <<"asdf">>, minimal |-> FALSE]
    /\ filtered = <<"nodejs">>

\* C6: with minimal=true every id of the result has minimal=true in the
\* registry, also when a non-minimal tool was explicitly requested.
C6_MinimalOnlyMinimalTools ==
    (fpc = "returned" /\ request.minimal)
    => \A k \in DOMAIN filtered : TOOLS[filtered[k]].minimal

C6_Witness ==
    /\ fpc = "returned"
    /\ request = [tools |-> <<"fonts", "fzf">>, exclude |-> <<>>, minimal |-> TRUE]
    /\ filtered = <<"fzf">>

(***************************************************************************)
(* Properties of the install driver (checked under Spec)                   *)
(***************************************************************************)
ExitCode == IF ret = "true" THEN 0 ELSE 1

\* terminal states of a run that started processing tools
AbortedCritical == exit \in {"CriticalFailed", "CriticalDeclined"}
Completed == exit = "Completed"
CancelledByUser == exit = "CancelledByUser"

IsInstallerCall(c, result) == c.kind = "installer" /\ c.result = result
IsPrompt(c, choice) == c.kind = "prompt" /\ c.result = choice
IsCritical(id) == TOOLS[id].critical

InstallerInvoked(id) == \E k \in DOMAIN calls : calls[k].kind = "installer" /\ calls[k].id = id
Invoked(kind) == \E k \in DOMAIN calls : calls[k].kind = kind

\* position of a selected tool in selectedTools
IndexOf(id) == CHOOSE k \in DOMAIN selectedTools : selectedTools[k] = id

\* C1: when the installer of a critical tool returns failure the run ends at
\* once: that call is the last external invocation of the run (no later
\* installer, no config writer), and install returns false (AbortedCritical,
\* exit code 1).
C1_CriticalFailureAbortsRun ==
    \A k \in DOMAIN calls :
        (IsInstallerCall(calls[k], "fail") /\ IsCritical(calls[k].id))
        => /\ k = Len(calls)
           /\ \A j \in DOMAIN selectedTools :
                  j > IndexOf(calls[k].id) => ~InstallerInvoked(selectedTools[j])
           /\ ~Invoked("writeConfigs")
           /\ pc = "done"
           /\ ret = "false"
           /\ AbortedCritical
           /\ ExitCode = 1

C1_Witness ==
    /\ pc = "done"
    /\ exit = "CriticalFailed"
    /\ installedTools = <<"zsh">>
    /\ calls[Len(calls)] = Call("installer", "oh-my-zsh", "fail")
    /\ Len(selectedTools) > 2

\* no call in the history that ends a run early
NoAbortCause ==
    \A k \in DOMAIN calls :
        /\ ~IsInstallerCall(calls[k], "throw")
        /\ ~(IsInstallerCall(calls[k], "fail") /\ IsCritical(calls[k].id))
        /\ ~IsPrompt(calls[k], "quit")
        /\ ~(IsPrompt(calls[k], "no") /\ IsCritical(calls[k].id))
        /\ ~(calls[k].kind \in {"backup", "writeConfigs"} /\ calls[k].result = "fail")

Processed(id) ==
    Includes(installedTools, id) \/ Includes(failedTools, id) \/ Includes(skippedTools, id)

\* C2: when the installer of a non-critical tool returns failure the tool is
\* recorded as failed and the run goes on with the next tool; a finished run
\* with such failures, in which no critical tool failed or was declined, the
\* user did not quit, no installer threw and the collaborators succeeded, has
\* processed every selected tool, invoked the config writer and returned true
\* (Completed, exit code 0).
C2_NonCriticalFailureContinues ==
    /\ \A k \in DOMAIN calls :
           (IsInstallerCall(calls[k], "fail") /\ ~IsCritical(calls[k].id))
           => /\ Includes(failedTools, calls[k].id)
              /\ k = Len(calls) => (pc \in {"loop", "prompt", "installer", "writeConfigs"}
                                    /\ i = IndexOf(calls[k].id) + 1)
    /\ (pc = "done" /\ failedTools # <<>> /\ NoAbortCause)
           => /\ \A j \in DOMAIN selectedTools : Processed(selectedTools[j])
              /\ Invoked("writeConfigs")
              /\ ret = "true"
              /\ Completed
              /\ ExitCode = 0

C2_Witness ==
    /\ pc = "done"
    /\ ret = "true"
    /\ ~hasController
    /\ Includes(installedTools, "zsh")
    /\ Includes(failedTools, "fzf")
    /\ Includes(installedTools, "eza")

\* C7: in an interactive install a negative answer for a critical tool ends
\* the run at once (install returns false; that tool's installer, every later
\* installer and the config writer are never invoked); a negative answer for
\* a non-critical tool marks it skipped without invoking its installer and
\* the run goes on with the next tool.
C7_DeclineCriticalAbortsElseSkips ==
    \A k \in DOMAIN calls :
        IsPrompt(calls[k], "no")
        => /\ hasController
           /\ ~InstallerInvoked(calls[k].id)
           /\ IF IsCritical(calls[k].id)
              THEN /\ k = Len(calls)
                   /\ pc = "done"
                   /\ ret = "false"
                   /\ AbortedCritical
                   /\ ~Invoked("writeConfigs")
              ELSE /\ Includes(skippedTools, calls[k].id)
                   /\ k = Len(calls) => (pc \in {"loop", "prompt", "installer", "writeConfigs"}
                                         /\ i = IndexOf(calls[k].id) + 1)

C7_Witness ==
    /\ pc = "done"
    /\ exit = "CriticalDeclined"
    /\ calls = <<Call("backup", "", "ok"), Call("prompt", "eza", "no"),
                 Call("prompt", "asdf", "no")>>
    /\ skippedTools = <<"eza">>
    /\ ret = "false"

\* C8: once the user answered 'all' the latch stays set and the skip list no
\* longer grows; no keypress is awaited any more, no later prompt is
\* answered, and every tool processed after the answer, critical or not, has
\* its installer invoked.
C8_InstallAllLatch ==
    /\ [][installAll => (installAll' /\ skippedNames' = skippedNames)]_vars
    /\ [](installAll => pc # "prompt")
    /\ [](\A k \in DOMAIN calls :
              IsPrompt(calls[k], "all")
              => /\ installAll
                 /\ \A j \in DOMAIN calls : j > k => calls[j].kind # "prompt"
                 /\ \A j \in DOMAIN selectedTools :
                        (j >= IndexOf(calls[k].id) /\ j < i)
                        => InstallerInvoked(selectedTools[j]))

C8_Witness ==
    /\ installAll
    /\ pc = "done"
    /\ ret = "true"
    /\ \E k \in DOMAIN calls : calls[k] = Call("prompt", "zsh", "all")
    /\ installedTools = <<"zsh", "oh-my-zsh", "antigen">>
    /\ failedTools = <<"eza">>

\* ids of the installer calls that returned true, in call order
RECURSIVE SucceededIds(_)
SucceededIds(cs) ==
    IF cs = <<>> THEN <<>>
    ELSE (IF IsInstallerCall(Head(cs), "ok") THEN <<Head(cs).id>> ELSE <<>>)
         \o SucceededIds(Tail(cs))

\* C9: a quit answer (q or Ctrl+C) unwinds the run at once: it is the last
\* event of the run (no installer, config writer or setZshAsDefault call
\* follows), install returns false, and the tools installed before the quit
\* stay installed (nothing is rolled back).
C9_QuitUnwindsImmediately ==
    \A k \in DOMAIN calls :
        IsPrompt(calls[k], "quit")
        => /\ k = Len(calls)
           /\ pc = "done"
           /\ ret = "false"
           /\ CancelledByUser
           /\ ~Invoked("writeConfigs")
           /\ ~Invoked("setZshAsDefault")
           /\ ~InstallerInvoked(calls[k].id)
           /\ installedTools = SucceededIds(calls)

C9_Witness ==
    /\ pc = "done"
    /\ exit = "CancelledByUser"
    /\ calls[Len(calls)] = Call("prompt", "eza", "quit")
    /\ installedTools = <<"zsh", "oh-my-zsh", "antigen">>
    /\ ret = "false"

\* C10: with telemetry enabled the final status matches the way the run
\* ended: a run ended by user quit sent 'cancelled' (and not 'failed'), a run
\* ended by a critical installer failure sent 'failed', 'completed' is sent
\* only by a run that returns true, and no run sends more than one status.
C10_FinalStatusMatchesOutcome ==
    telemetryEnabled
    => /\ Len(sent) <= 1
       /\ Includes(sent, "completed") => (pc = "done" /\ ret = "true")
       /\ (\E k \in DOMAIN calls : IsPrompt(calls[k], "quit"))
              => sent = <<"cancelled">>
       /\ (\E k \in DOMAIN calls : IsInstallerCall(calls[k], "fail") /\ IsCritical(calls[k].id))
              => sent = <<"failed">>
       /\ (pc = "done" /\ ret = "true") => sent = <<"completed">>

C10_Witness ==
    /\ telemetryEnabled
    /\ pc = "done"
    /\ exit = "CancelledByUser"
    /\ sent = <<"cancelled">>
    /\ failedTools = <<"eza">>
    /\ calls[Len(calls)] = Call("prompt", "asdf", "quit")
    /\ telemetryTools = <<[toolId |-> "eza", status |-> "failed"]>>

(***************************************************************************)
(* Dry run and the collaborators of install (checked under Spec)           *)
(***************************************************************************)
\* the "n. Install <name>" lines of the log, in order
InstallSteps ==
    LET IsInstallStep(l) == l.text = "Install"
    IN SelectSeq(log, IsInstallStep)

\* install went past validation and selection
PassedSelection ==
    pc # "start" /\ exit \notin {"UnknownTools", "UnknownExclude", "NothingSelected"}

\* C11: a dry run has no side effect: no installer, backup, config writer or
\* setZshAsDefault call (and no prompt) is ever made, nothing is recorded for
\* telemetry and nothing is sent; a dry run whose request passes validation
\* and selects at least one tool prints one "Install" step per selected tool,
\* numbered consecutively in canonical order, and returns true.
C11_DryRunHasNoSideEffect ==
    opts.dryRun
    => /\ calls = <<>>
       /\ installedTools = <<>> /\ failedTools = <<>> /\ skippedTools = <<>>
       /\ telemetryTools = <<>> /\ sent = <<>> /\ network = <<>>
       /\ PassedSelection
          => /\ pc = "done"
             /\ ret = "true"
             /\ IsSubsequence(selectedTools, TOOL_ORDER)
             /\ Len(InstallSteps) = Len(selectedTools)
             /\ \A k \in DOMAIN selectedTools :
                    /\ InstallSteps[k].ids = <<TOOLS[selectedTools[k]].name>>
                    /\ InstallSteps[k].n = (IF opts.skipBackup THEN 0 ELSE 1) + k

C11_Witness ==
    /\ opts.dryRun
    /\ ~opts.skipBackup
    /\ pc = "done"
    /\ ret = "true"
    /\ selectedTools = <<"asdf", "nodejs">>
    /\ log = <<LogLine("dim", "Backup existing configurations", <<>>, 1),
               LogLine("dim", "Install", <<"asdf">>, 2),
               LogLine("dim", "Install", <<"Node.js LTS">>, 3),
               LogLine("dim", "Write configuration files", <<>>, 4)>>

\* positions of the calls of one collaborator in the history
CallsOf(kind) == {k \in DOMAIN calls : calls[k].kind = kind}

\* install went past validation, selection and the dry-run branch
ReachedInstallation == PassedSelection /\ exit # "DryRun"

\* C12: in a run that reaches the installation phase without --skip-backup
\* the backup is the first call of the run and is made exactly once, so it
\* precedes every prompt, installer and config-writer call; if it reports
\* failure it stays the only call and install returns false; with
\* --skip-backup it is never called.
C12_BackupOnceBeforeInstallers ==
    /\ Cardinality(CallsOf("backup")) <= 1
    /\ opts.skipBackup => CallsOf("backup") = {}
    /\ (~opts.skipBackup /\ calls # <<>>) => calls[1].kind = "backup"
    /\ (~opts.skipBackup /\ ReachedInstallation /\ pc # "backup") => CallsOf("backup") = {1}
    /\ (calls # <<>> /\ calls[1] = Call("backup", "", "fail"))
           => /\ Len(calls) = 1
              /\ pc = "done"
              /\ ret = "false"
              /\ installedTools = <<>>

C12_Witness ==
    /\ ~opts.skipBackup
    /\ pc = "done"
    /\ ret = "true"
    /\ calls = <<Call("backup", "", "ok"), Call("installer", "asdf", "ok"),
                 Call("installer", "nodejs", "ok"), Call("writeConfigs", "", "ok")>>

\* the tool loop ran to its end: every selected tool was installed, skipped
\* or failed, and install is past the loop
LoopRanToEnd ==
    /\ selectedTools # <<>>
    /\ \A j \in DOMAIN selectedTools : Processed(selectedTools[j])
    /\ pc \in {"writeConfigs", "setZsh", "done"}

\* C13: the config writer is called at most once, only after every selected
\* tool was processed and after every installer and prompt call; a run whose
\* tool loop ran to its end has called it exactly once when it ends; when it
\* reports failure that call is the last of the run and install returns false.
C13_ConfigWriterOnceAfterLoop ==
    /\ Cardinality(CallsOf("writeConfigs")) <= 1
    /\ \A k \in CallsOf("writeConfigs") :
           /\ LoopRanToEnd
           /\ \A j \in DOMAIN calls : calls[j].kind \in {"installer", "prompt"} => j < k
           /\ calls[k].result = "fail"
                  => (k = Len(calls) /\ pc = "done" /\ ret = "false")
    /\ (LoopRanToEnd /\ pc # "writeConfigs") => Cardinality(CallsOf("writeConfigs")) = 1

C13_Witness ==
    /\ pc = "done"
    /\ exit = "ConfigWriteFailed"
    /\ calls[Len(calls)] = Call("writeConfigs", "", "fail")
    /\ installedTools = <<"zsh", "oh-my-zsh", "antigen">>
    /\ failedTools = <<"eza">>

(***************************************************************************)
(* commands/update.ts, and SpecCommands: one run of install or of update   *)
(***************************************************************************)
\* mutant: the dryRun parameter is not looked at
updateTool_DryRunIgnored(toolId, dryRun) ==
    IF ~hasEntry(toolId) THEN {"failed"}
    ELSE IF toolId \notin ToolIds THEN {"not-installed"}
    ELSE (IF toolId = "fonts" THEN {} ELSE {"not-installed"})
         \cup (IF toolId = "fonts" THEN {"skipped"}
               ELSE IF toolId \in {"eza", "carapace"} THEN {"updated", "skipped", "failed"}
               ELSE {"updated", "failed"})

\* the statuses updateTool(toolId, dryRun) can return: 'failed' for an id
\* without catalog entry, 'not-installed' when isToolInstalled says so (it
\* never does for fonts), 'updated' in a dry run, otherwise what the tool's
\* case returns, 'failed' included when a command fails or throws
updateTool(toolId, dryRun) ==
    IF ~hasEntry(toolId) THEN {"failed"}
    ELSE IF toolId \notin ToolIds THEN {"not-installed"}
    ELSE (IF toolId = "fonts" THEN {} ELSE {"not-installed"})
         \cup (IF dryRun THEN {"updated"}
               ELSE IF toolId = "fonts" THEN {"skipped"}
               ELSE IF toolId \in {"eza", "carapace"} THEN {"updated", "skipped", "failed"}
               ELSE {"updated", "failed"})

\* the message of an UpdateResult; the messages written inside the try
\* block (a command's stderr, 'Updated via ...') are one value here
updateMessage(toolId, dryRun, status) ==
    IF ~hasEntry(toolId) THEN "Unknown tool"
    ELSE IF status = "not-installed" THEN "Not installed"
    ELSE IF dryRun THEN "Dry run"
    ELSE "(set by the update action)"

\* what updateTool logs: 'Would update' in a dry run, 'Updating ...' before
\* the try block otherwise, nothing when it returns earlier
updateToolLog(toolId, dryRun, status) ==
    IF ~hasEntry(toolId) \/ status = "not-installed" THEN <<>>
    ELSE IF dryRun THEN <<LogLine("dim", "Would update", <<entryName(toolId)>>, 0)>>
    ELSE <<LogLine("step", "Updating...", <<entryName(toolId)>>, 0)>>

\* `let toolIds` after the selection: the valid requested ids in request
\* order, or the whole TOOL_ORDER when options.tools is missing or empty
updateSelection(options) ==
    IF options.tools # <<>>
    THEN validateToolIds(parseToolList(options.tools)).valid
    ELSE TOOL_ORDER

\* results.filter((r) => r.status === status).map((r) => TOOLS[r.toolId].name)
RECURSIVE namesWithStatus(_, _)
namesWithStatus(results, status) ==
    IF results = <<>> THEN <<>>
    ELSE (IF Head(results).status = status
          THEN <<entryName(Head(results).toolId)>> ELSE <<>>)
         \o namesWithStatus(Tail(results), status)

\* one line of the update summary, printed when some result has the status
updateSummaryLine(level, text, status) ==
    IF namesWithStatus(uResults, status) # <<>>
    THEN <<LogLine(level, text, namesWithStatus(uResults, status), 0)>>
    ELSE <<>>

\* the summary update prints after its loop
updateSummary ==
    updateSummaryLine("success", "Updated", "updated")
    \o updateSummaryLine("dim", "Skipped", "skipped")
    \o updateSummaryLine("dim", "Not installed", "not-installed")
    \o updateSummaryLine("warn", "Failed", "failed")

\* mutant: a tool that is not installed fails the command too
noneFailed_NorMissing(results) ==
    /\ namesWithStatus(results, "failed") = <<>>
    /\ namesWithStatus(results, "not-installed") = <<>>

\* failed.length === 0
noneFailed(results) == namesWithStatus(results, "failed") = <<>>

\* tokens of the comma-separated --tools value of an update run
UpdateTokens == {"FZF", "eza", "fonts", "Bogus", " ", "constructor"}

InitUpdate ==
    /\ Idle
    /\ UnitIdle
    /\ Dispatched("update")
    /\ FilterIdle
    /\ ClosureIdle
    /\ upc = "start"
    /\ uopts \in [tools : BSeq(UpdateTokens, MaxUpdateArg), dryRun : BOOLEAN]
    /\ ~uopts.dryRun => Len(updateSelection(uopts)) <= MaxUpdateTools
    /\ uToolIds = <<>>
    /\ uResults = <<>>
    /\ uRet = "none"

\* the selection of update: an unknown id is reported and update returns
\* false before its loop
UpdateStart ==
    /\ upc = "start"
    /\ LET invalid == validateToolIds(parseToolList(uopts.tools)).invalid
       IN IF uopts.tools # <<>> /\ Len(invalid) > 0
          THEN /\ log' = log \o unknownIdsReport("Unknown tools", invalid)
               /\ upc' = "done"
               /\ uRet' = "false"
               /\ UNCHANGED uToolIds
          ELSE /\ uToolIds' = updateSelection(uopts)
               /\ upc' = "loop"
               /\ UNCHANGED <<log, uRet>>
    /\ UNCHANGED <<installVars, unitVars, registryVars, cliVars, filterVars, closureVars, uopts, uResults>>

\* one round of `for (const toolId of toolIds)`
UpdateTool(status) ==
    /\ upc = "loop"
    /\ Len(uResults) < Len(uToolIds)
    /\ LET toolId == uToolIds[Len(uResults) + 1]
       IN /\ status \in updateTool(toolId, uopts.dryRun)
          /\ uResults' = Append(uResults,
                                [toolId |-> toolId, status |-> status,
                                 message |-> updateMessage(toolId, uopts.dryRun, status)])
          /\ log' = log \o updateToolLog(toolId, uopts.dryRun, status)
    /\ UNCHANGED <<installVars, unitVars, registryVars, cliVars, filterVars, closureVars, upc, uopts, uToolIds, uRet>>

\* the summary and `return failed.length === 0`
UpdateSummary ==
    /\ upc = "loop"
    /\ Len(uResults) = Len(uToolIds)
    /\ log' = log \o updateSummary
    /\ uRet' = IF noneFailed(uResults) THEN "true" ELSE "false"
    /\ upc' = "done"
    /\ UNCHANGED <<installVars, unitVars, registryVars, cliVars, filterVars, closureVars, uopts, uToolIds, uResults>>

NextUpdate ==
    \/ UpdateStart
    \/ \E status \in {"updated", "skipped", "failed", "not-installed"} : UpdateTool(status)
    \/ UpdateSummary

(***************************************************************************)
(* index.ts: main                                                          *)
(***************************************************************************)
\* index.ts 115-161: the commands the switch of main knows
Commands == {"install", "update", "check", "backup", "restore"}

\* index.ts 103: `values.help || args.length === 0`
showsHelp ==
    \/ argv.help
    \/ argv.command = "" /\ ~argv.version /\ ~argv.options

\* index.ts 109: `values.version`, reached only past the help branch
showsVersion == ~showsHelp /\ argv.version

\* what the awaited command handed to main: the value install or update
\* returned, the outcome of check, backup or restore, none while it runs
commandResult ==
    CASE argv.command = "install" -> IF pc = "done" THEN ret ELSE "none"
      [] argv.command = "update" -> IF upc = "done" THEN uRet ELSE "none"
      [] OTHER -> awaited

\* mutant: the process always exits with code 0
exitStatus_AlwaysZero(result) == 0

\* index.ts 127, 135, 140, 146, 157: `process.exit(success ? 0 : 1)`, and
\* 166-169: an exception caught by main exits with code 1
exitStatus(result) == IF result = "true" THEN 0 ELSE 1

\* command lines on which main does not run install or update
InitCli ==
    /\ Idle
    /\ UnitIdle
    /\ FilterIdle
    /\ ClosureIdle
    /\ UpdateIdle
    /\ argv \in [command : Commands \cup {"bogus", ""}, help : BOOLEAN, version : BOOLEAN,
                  options : BOOLEAN, path : BOOLEAN]
    /\ argv.command \in {"install", "update"} => (argv.help \/ argv.version)
    /\ argv.path => argv.command # ""
    /\ awaited = "none"
    /\ exitCode = <<>>

\* index.ts 103-106: the help text, exit code 0
CliHelp ==
    /\ argv.command # "none"
    /\ exitCode = <<>>
    /\ showsHelp
    /\ exitCode' = <<0>>
    /\ UNCHANGED <<installVars, unitVars, registryVars, filterVars, updateVars, closureVars, log, argv,
                   awaited>>

\* index.ts 109-112: the version, exit code 0
CliVersion ==
    /\ argv.command # "none"
    /\ exitCode = <<>>
    /\ showsVersion
    /\ exitCode' = <<0>>
    /\ UNCHANGED <<installVars, unitVars, registryVars, filterVars, updateVars, closureVars, log, argv,
                   awaited>>

\* index.ts 138-158: check(), backup(destination) or restore(backupPath)
\* returns true or false, or throws
CliCommand(result) ==
    /\ exitCode = <<>>
    /\ ~showsHelp /\ ~showsVersion
    /\ argv.command \in {"check", "backup", "restore"}
    /\ argv.command = "restore" => argv.path
    /\ awaited = "none"
    /\ awaited' = result
    /\ UNCHANGED <<installVars, unitVars, registryVars, filterVars, updateVars, closureVars, log, argv,
                   exitCode>>

\* index.ts 149-155: restore without a backup path
CliRestoreWithoutPath ==
    /\ exitCode = <<>>
    /\ ~showsHelp /\ ~showsVersion
    /\ argv.command = "restore"
    /\ ~argv.path
    /\ log' = Append(log, LogLine("error", "Backup path is required", <<>>, 0))
    /\ exitCode' = <<1>>
    /\ UNCHANGED <<installVars, unitVars, registryVars, filterVars, updateVars, closureVars, argv, awaited>>

\* index.ts 161-164: the default branch of the switch
CliUnknownCommand ==
    /\ exitCode = <<>>
    /\ ~showsHelp /\ ~showsVersion
    /\ argv.command \notin Commands \cup {"none"}
    /\ log' = Append(log, LogLine("error", "Unknown command", <<argv.command>>, 0))
    /\ exitCode' = <<1>>
    /\ UNCHANGED <<installVars, unitVars, registryVars, filterVars, updateVars, closureVars, argv, awaited>>

\* index.ts 127, 135, 140, 146, 157: process.exit with the command's result;
\* 166-169: the catch of main logs a fatal error and exits
CliExit ==
    /\ exitCode = <<>>
    /\ commandResult # "none"
    /\ log' = IF commandResult = "threw"
              THEN Append(log, LogLine("error", "Fatal error", <<>>, 0))
              ELSE log
    /\ exitCode' = <<exitStatus(commandResult)>>
    /\ UNCHANGED <<installVars, unitVars, registryVars, filterVars, updateVars, closureVars, argv, awaited>>

NextCli ==
    \/ CliHelp
    \/ CliVersion
    \/ \E result \in {"true", "false", "threw"} : CliCommand(result)
    \/ CliRestoreWithoutPath
    \/ CliUnknownCommand
    \/ CliExit

InitCommands == Init \/ InitUpdate \/ InitCli

NextCommands == Next \/ NextUpdate \/ NextCli

SpecCommands == InitCommands /\ [][NextCommands]_vars

(***************************************************************************)
(* Input validation (checked under SpecCommands)                           *)
(***************************************************************************)
\* the entries of a comma-separated list that name no catalog tool
UnknownIds(segments) ==
    ({toLowerCase(trim(t)) : t \in Range(segments)} \ {""}) \ ToolIds

\* the log is exactly the report of the given unknown ids and the valid ids
ReportsUnknown(text, unknown) ==
    /\ Len(log) = 2
    /\ log[1].level = "error" /\ log[1].text = text /\ Range(log[1].ids) = unknown
    /\ log[2].text = "Available tools" /\ log[2].ids = TOOL_ORDER

\* C14: when the --tools or the --exclude value of install names an id that
\* is not in the registry, install returns false having reported the unknown
\* ids and the valid ids, with no backup, prompt, installer or config-writer
\* call made; update with such a --tools value returns false with the same
\* report and no tool updated; and an unknown id never gets into a run: what
\* install selects and what update processes are catalog ids only.
C14_UnknownIdsFailFast ==
    /\ (pc \notin {"idle", "start"} /\ UnknownIds(opts.tools) # {})
           => /\ pc = "done" /\ ret = "false" /\ calls = <<>>
              /\ ReportsUnknown("Unknown tools", UnknownIds(opts.tools))
    /\ (pc \notin {"idle", "start"} /\ UnknownIds(opts.tools) = {}
            /\ UnknownIds(opts.exclude) # {})
           => /\ pc = "done" /\ ret = "false" /\ calls = <<>>
              /\ ReportsUnknown("Unknown tools to exclude", UnknownIds(opts.exclude))
    /\ (upc \notin {"idle", "start"} /\ UnknownIds(uopts.tools) # {})
           => /\ upc = "done" /\ uRet = "false" /\ uResults = <<>>
              /\ ReportsUnknown("Unknown tools", UnknownIds(uopts.tools))
    /\ Range(selectedTools) \subseteq ToolIds
    /\ \A k \in DOMAIN calls : calls[k].id \in ToolIds \cup {""}
    /\ Range(uToolIds) \subseteq ToolIds
    /\ \A k \in DOMAIN uResults : uResults[k].toolId \in ToolIds

(***************************************************************************)
(* How a run of install ends (checked under Spec)                          *)
(***************************************************************************)
\* the run asked the user about a tool or called an installer
StartedProcessing == \E k \in DOMAIN calls : calls[k].kind \in {"prompt", "installer"}

\* the last external call or answered prompt of the run
LastCall == calls[Len(calls)]

\* the ways a run that started processing tools can end, told from what
\* install returned and from the last event of the run
Ended(state) ==
    CASE state = "Completed" ->
             /\ ret = "true"
             /\ LastCall.kind \in {"writeConfigs", "setZshAsDefault"}
             /\ LastCall.result = "ok"
      [] state = "AbortedCritical" ->
             /\ ret = "false"
             /\ LastCall.kind \in {"installer", "prompt"}
             /\ IsCritical(LastCall.id)
             /\ (IsInstallerCall(LastCall, "fail") \/ IsPrompt(LastCall, "no"))
      [] state = "CancelledByUser" ->
             ret = "false" /\ IsPrompt(LastCall, "quit")
      [] state = "ConfigWriteFailed" ->
             ret = "false" /\ LastCall = Call("writeConfigs", "", "fail")
      [] state = "Rejected" ->
             ret = "threw" /\ IsInstallerCall(LastCall, "throw")

SpecTerminalStates == {"Completed", "AbortedCritical", "CancelledByUser"}
TerminalStates == SpecTerminalStates \cup {"ConfigWriteFailed", "Rejected"}

\* C15 as claimed, for the runs that return: a run that started processing
\* tools ends in exactly one of Completed, AbortedCritical, CancelledByUser.
C15_EndsCompletedAbortedOrCancelled ==
    (pc = "done" /\ StartedProcessing /\ ret # "threw")
    => Cardinality({s \in SpecTerminalStates : Ended(s)}) = 1

\* C15: a run that started processing tools ends in exactly one of
\* Completed, AbortedCritical, CancelledByUser, ConfigWriteFailed (the config
\* writer reported failure) or Rejected (an installer threw), and the end is
\* final: once install has returned or rejected no installer, prompt or
\* collaborator is executed and nothing of the run changes any more.
C15_TerminalStateExclusiveAndFinal ==
    /\ []((pc = "done" /\ StartedProcessing)
          => /\ Cardinality({s \in TerminalStates : Ended(s)}) = 1
             /\ Ended("Completed") <=> Completed
             /\ Ended("AbortedCritical") <=> AbortedCritical
             /\ Ended("CancelledByUser") <=> CancelledByUser
             /\ Ended("ConfigWriteFailed") <=> exit = "ConfigWriteFailed"
             /\ Ended("Rejected") <=> exit = "Exception")
    /\ [][exit # "none"
          => UNCHANGED <<pc, ret, exit, calls, log, sent, selectedTools, i, hasController,
                         installAll, skippedNames, installedTools, failedTools,
                         skippedTools, telemetryTools>>]_vars

C15_Witness ==
    /\ pc = "done"
    /\ exit = "ConfigWriteFailed"
    /\ ret = "false"
    /\ StartedProcessing
    /\ installedTools = <<"asdf", "nodejs">>
    /\ sent = <<>>

\* the summary lines of the log
SummaryLines ==
    LET IsSummaryLine(l) == l.text \in {"Installed", "Skipped", "Failed"}
    IN SelectSeq(log, IsSummaryLine)

\* ids of the non-critical tools whose installer returned false, in call order
RECURSIVE FailedIds(_)
FailedIds(cs) ==
    IF cs = <<>> THEN <<>>
    ELSE (IF IsInstallerCall(Head(cs), "fail") /\ ~IsCritical(Head(cs).id)
          THEN <<Head(cs).id>> ELSE <<>>)
         \o FailedIds(Tail(cs))

\* ids of the non-critical tools the user declined
DeclinedIds ==
    {calls[k].id : k \in {j \in DOMAIN calls : IsPrompt(calls[j], "no")
                                               /\ ~IsCritical(calls[j].id)}}

\* the log holds a summary that lists, by display name, the tools installed,
\* skipped and failed in this run, one line per bucket that is not empty
SummaryListsOutcome ==
    /\ SucceededIds(calls) # <<>>
           => \E k \in DOMAIN log : /\ log[k].text = "Installed"
                                    /\ log[k].ids = MapSeq(NameOf, SucceededIds(calls))
    /\ DeclinedIds # {}
           => \E k \in DOMAIN log : /\ log[k].text = "Skipped"
                                    /\ Range(log[k].ids) = {NameOf(id) : id \in DeclinedIds}
    /\ FailedIds(calls) # <<>>
           => \E k \in DOMAIN log : /\ log[k].text = "Failed"
                                    /\ log[k].ids = MapSeq(NameOf, FailedIds(calls))

\* C16 as claimed: a run that ends Completed, AbortedCritical or
\* CancelledByUser after at least one tool was installed, skipped or failed
\* has emitted the summary of these tools.
C16_SummaryHoweverTheRunEnded ==
    (/\ pc = "done"
     /\ Completed \/ AbortedCritical \/ CancelledByUser
     /\ installedTools \o skippedTools \o failedTools # <<>>)
    => SummaryListsOutcome

\* C16: the summary is emitted by the runs that end Completed and by no
\* other: such a run lists the installed, skipped and failed tools by display
\* name, one line per non-empty bucket, as its last output; a run that
\* returns false ends with an error or warning line and without summary.
C16_SummaryOnlyWhenCompleted ==
    /\ ~Completed => SummaryLines = <<>>
    /\ Completed
           => /\ SummaryListsOutcome
              /\ Len(SummaryLines) =
                     Cardinality({b \in {"Installed", "Skipped", "Failed"} :
                                     \E k \in DOMAIN log : log[k].text = b})
              /\ \A j, k \in DOMAIN log :
                     (log[k].text \in {"Installed", "Skipped", "Failed"} /\ j > k)
                     => log[j].text \in {"Installed", "Skipped", "Failed"}
    /\ (pc = "done" /\ ret = "false")
           => (log # <<>> /\ log[Len(log)].level \in {"error", "warn", "info"}
               /\ log[Len(log)].text \notin {"Installed", "Skipped", "Failed"})

C16_Witness ==
    /\ pc = "done"
    /\ Completed
    /\ log = <<LogLine("warn", "Failed to install, continuing...", <<"eza">>, 0),
               LogLine("info", "Installed", <<"Zsh", "Oh My Zsh", "Antigen">>, 0),
               LogLine("warn", "Failed", <<"eza">>, 0)>>

\* C17 as claimed: an installer that throws is recorded as failed; for a
\* non-critical tool the run goes on with the next tool and install does not
\* reject.
C17_InstallerErrorBecomesFailedRecord ==
    \A k \in DOMAIN calls :
        (IsInstallerCall(calls[k], "throw") /\ ~IsCritical(calls[k].id))
        => /\ Includes(failedTools, calls[k].id)
           /\ ret # "threw"
           /\ exit # "Exception"

(***************************************************************************)
(* SpecClosure: addWithDependencies, one step per call and per return,     *)
(* over every dependency declaration of three tools                        *)
(***************************************************************************)
\* the tools of the catalogs under test, in canonical order
ClosureTools == <<"zsh", "oh-my-zsh", "antigen">>

\* the ids of a set, as a list in canonical order
ListOf(S) ==
    LET Member(id) == id \in S
    IN SelectSeq(ClosureTools, Member)

\* every way to declare `dependencies` for these tools, cyclic ones and the
\* shipped one (zsh: [], oh-my-zsh: [zsh], antigen: [zsh, oh-my-zsh]) included
Declarations ==
    [Range(ClosureTools) -> {ListOf(S) : S \in SUBSET Range(ClosureTools)}]

\* one frame of the call stack: the toolId of the call and the position of
\* its `for (const dep of tool.dependencies || [])` loop
Frame(toolId, next) == [toolId |-> toolId, next |-> next]

InitClosure ==
    /\ Idle
    /\ UnitIdle
    /\ CliIdle
    /\ FilterIdle
    /\ UpdateIdle
    /\ cdeps \in Declarations
    /\ croots \in {ListOf(S) : S \in (SUBSET Range(ClosureTools)) \ {{}}}
    /\ cstack = <<>>
    /\ cresult = {}
    /\ cvisits = [id \in Range(ClosureTools) |-> 0]
    /\ cpc = "running"

\* `const tool = TOOLS[toolId]; if (!tool) return;`: the call goes on to the
\* dependencies of every catalog tool, whatever `result` holds
enters(toolId) == toolId \in DOMAIN cdeps

\* filterTools 379-381: `for (const id of toolIds) addWithDependencies(id, withDeps)`
ClosureCallRoot ==
    /\ cpc = "running"
    /\ cstack = <<>>
    /\ croots # <<>>
    /\ croots' = Tail(croots)
    /\ IF enters(Head(croots))
       THEN /\ cstack' = <<Frame(Head(croots), 1)>>
            /\ cvisits' = [cvisits EXCEPT ![Head(croots)] = @ + 1]
       ELSE UNCHANGED <<cstack, cvisits>>
    /\ UNCHANGED <<installVars, unitVars, registryVars, cliVars, filterVars, updateVars, log, cdeps, cresult, cpc>>

\* lines 404-406: the call on top of the stack calls itself for its next
\* dependency; the call stack is finite, so the call that exceeds it throws
ClosureCallDependency ==
    /\ cpc = "running"
    /\ cstack # <<>>
    /\ LET top == cstack[Len(cstack)]
           dependencies == cdeps[top.toolId]
       IN /\ top.next <= Len(dependencies)
          /\ LET dep == dependencies[top.next]
             IN IF ~enters(dep)
                THEN /\ cstack' = [cstack EXCEPT ![Len(cstack)].next = @ + 1]
                     /\ UNCHANGED <<cvisits, cpc>>
                ELSE IF Len(cstack) = MaxCallStack
                THEN /\ cpc' = "overflow"
                     /\ UNCHANGED <<cstack, cvisits>>
                ELSE /\ cstack' = Append([cstack EXCEPT ![Len(cstack)].next = @ + 1],
                                         Frame(dep, 1))
                     /\ cvisits' = [cvisits EXCEPT ![dep] = @ + 1]
                     /\ UNCHANGED cpc
    /\ UNCHANGED <<installVars, unitVars, registryVars, cliVars, filterVars, updateVars, log, cdeps, croots, cresult>>

\* line 409: after its dependencies the call adds its own id and returns
ClosureReturn ==
    /\ cpc = "running"
    /\ cstack # <<>>
    /\ LET top == cstack[Len(cstack)]
       IN /\ top.next > Len(cdeps[top.toolId])
          /\ cresult' = cresult \cup {top.toolId}
    /\ cstack' = SubSeq(cstack, 1, Len(cstack) - 1)
    /\ UNCHANGED <<installVars, unitVars, registryVars, cliVars, filterVars, updateVars, log, cdeps, croots, cvisits, cpc>>

\* the loop of filterTools is over: withDeps is complete
ClosureDone ==
    /\ cpc = "running"
    /\ cstack = <<>>
    /\ croots = <<>>
    /\ cpc' = "returned"
    /\ UNCHANGED <<installVars, unitVars, registryVars, cliVars, filterVars, updateVars, log, cdeps, croots, cstack,
                   cresult, cvisits>>

NextClosure ==
    \/ ClosureCallRoot
    \/ ClosureCallDependency
    \/ ClosureReturn
    \/ ClosureDone

SpecClosure == InitClosure /\ [][NextClosure]_vars

\* C18 as claimed: whatever the dependency declarations, the closure
\* computation never recurses without end (it does not exhaust the call
\* stack) and enters every tool at most once.
C18_ClosureVisitsEachToolOnce ==
    cpc # "idle"
    => /\ cpc # "overflow"
       /\ \A id \in DOMAIN cvisits : cvisits[id] <= 1

(***************************************************************************)
(* The shipped catalog (checked under SpecFilter)                          *)
(***************************************************************************)
\* position of a catalog id in TOOL_ORDER
PositionInOrder(id) == CHOOSE k \in DOMAIN TOOL_ORDER : TOOL_ORDER[k] = id

\* C19: TOOL_ORDER lists every catalog id exactly once and nothing else;
\* every declared dependency is a catalog id and stands strictly earlier in
\* TOOL_ORDER than the tool that declares it; no tool is among its own
\* transitive dependencies; so in what filterTools returns for an explicit
\* list (no minimal, no exclude) every tool comes after its dependencies.
C19_CatalogTopologicallyConsistent ==
    /\ Range(TOOL_ORDER) = ToolIds
    /\ NoDuplicates(TOOL_ORDER)
    /\ \A id \in ToolIds :
           /\ DirectDeps(id) \subseteq ToolIds
           /\ \A dep \in DirectDeps(id) : PositionInOrder(dep) < PositionInOrder(id)
           /\ id \notin DependencyClosure(DirectDeps(id))
    /\ (fpc = "returned" /\ Len(request.tools) > 0 /\ ~request.minimal
            /\ request.exclude = <<>>)
           => \A k \in DOMAIN filtered :
                  \A dep \in DirectDeps(filtered[k]) :
                      \E j \in 1..(k - 1) : filtered[j] = dep

C19_Witness ==
    /\ fpc = "returned"
    /\ request = [tools |-> <<"tpm", "nodejs">>, exclude |-> <<>>, minimal |-> FALSE]
    /\ filtered = <<"asdf", "nodejs", "tmux", "tpm">>

(***************************************************************************)
(* Telemetry transmission (checked under Spec)                             *)
(***************************************************************************)
\* C20: send neither throws nor waits for the transmission: with the fetch
\* still pending install has already returned, and whether the fetch then
\* succeeds, fails or never settles, what install returned is what the run
\* itself determined (true exactly for the status 'completed'); a collector
\* that is disabled dispatches nothing.
C20_SendNeverBlocksOrThrows ==
    /\ Len(network) = Len(sent)
    /\ ~telemetryEnabled => network = <<>>
    /\ \A k \in DOMAIN network :
           /\ network[k] \in {"pending", "ok", "error"}
           /\ pc = "done"
           /\ ret = (IF sent[k] = "completed" THEN "true" ELSE "false")
           /\ exit # "Exception"

C20_Witness ==
    /\ pc = "done"
    /\ ret = "true"
    /\ sent = <<"completed">>
    /\ network = <<"error">>
    /\ failedTools = <<"nodejs">>

(***************************************************************************)
(* SpecCollector: a TelemetryCollector used on its own                     *)
(***************************************************************************)
\* this.tools.filter((t) => t.status === status).length
countWithStatus(tools, status) ==
    LET HasStatus(t) == t.status = status
    IN Len(SelectSeq(tools, HasStatus))

\* client.ts 173-179
getSummary(tools) ==
    [installed |-> countWithStatus(tools, "installed"),
     skipped |-> countWithStatus(tools, "skipped"),
     failed |-> countWithStatus(tools, "failed")]

ToolStatuses == {"installed", "skipped", "failed"}

\* no collector constructed yet
InitCollector ==
    /\ Idle
    /\ FilterIdle
    /\ UpdateIdle
    /\ ClosureIdle
    /\ UnitIdle
    /\ CliIdle

\* values of BETTER_SHELL_TELEMETRY a collector is configured under
CollectorEnvValues == {"unset", "0", "false", "off", "OFF", "1"}

\* install.ts 84-90: the first-run notice, printed when telemetry is enabled
\* and hasSeenTelemetryNotice() is false; markTelemetryNoticeShown follows
firstRunNotice(enabled, seen) ==
    [seen |-> seen, shown |-> enabled /\ ~seen, marked |-> enabled /\ ~seen]

\* install.ts 75-90: new TelemetryCollector({ enabled }), with `enabled`
\* computed from the flags and the environment, then the first-run notice
CollectorConfigure(noTelemetry, dryRun, env, seen) ==
    /\ pc = "idle"
    /\ recordCalls = <<>> /\ sent = <<>>
    /\ opts' = [opts EXCEPT !.noTelemetry = noTelemetry, !.dryRun = dryRun]
    /\ telemetryEnv' = env
    /\ notice' = firstRunNotice(telemetryEnabled', seen)
    /\ pc' = "collector"
    /\ UNCHANGED <<filterVars, updateVars, closureVars, recordCalls, keysPressed,
                   registryVars, cliVars,
                   running, log, tty, installers, selectedTools,
                   i, hasController, installAll, skippedNames, installedTools,
                   failedTools, skippedTools, telemetryTools, sent, calls, ret, exit,
                   network>>

\* collector.recordTool(toolId, status)
CollectorRecordTool(toolId, status) ==
    /\ pc = "collector"
    /\ Len(recordCalls) < MaxRecordCalls
    /\ telemetryTools' = recordTool(telemetryTools, toolId, status)
    /\ recordCalls' = Append(recordCalls, status)
    /\ UNCHANGED <<inputVars, filterVars, updateVars, closureVars, registryVars, cliVars,
                   notice, keysPressed, running, log, pc, selectedTools,
                   i, hasController, installAll, skippedNames, installedTools,
                   failedTools, skippedTools, sent, calls, ret, exit, network>>

\* collector.send(status)
CollectorSend(status) ==
    /\ pc = "collector"
    /\ sent = <<>>
    /\ sent' = send(status)
    /\ network' = dispatch
    /\ UNCHANGED <<inputVars, besideInstall, running, log, pc,
                   selectedTools, i, hasController, installAll, skippedNames,
                   installedTools, failedTools, skippedTools, telemetryTools, calls, ret,
                   exit>>

NextCollector ==
    \/ \E noTelemetry \in BOOLEAN, dryRun \in BOOLEAN, env \in CollectorEnvValues,
          seen \in BOOLEAN :
           CollectorConfigure(noTelemetry, dryRun, env, seen)
    \/ \E toolId \in {"fzf", "eza"}, status \in ToolStatuses :
           CollectorRecordTool(toolId, status)
    \/ \E status \in {"completed", "failed", "cancelled"} : CollectorSend(status)
    \/ \E k \in DOMAIN network, outcome \in {"ok", "error"} : NetworkSettles(k, outcome)

SpecCollector == InitCollector /\ [][NextCollector]_vars

\* number of recordTool calls made with a status
CallsWithStatus(status) == Cardinality({k \in DOMAIN recordCalls : recordCalls[k] = status})

\* C21: on an enabled collector getSummary gives, for installed, skipped and
\* failed, the number of recordTool calls made with that status; on a
\* disabled collector nothing is stored, the three counts stay 0, and send
\* dispatches nothing; recordTool and send always return (ret is never
\* "threw").
C21_SummaryCountsRecordedCalls ==
    pc = "collector"
    => /\ telemetryEnabled
              => \A status \in ToolStatuses :
                     getSummary(telemetryTools)[status] = CallsWithStatus(status)
       /\ ~telemetryEnabled
              => /\ telemetryTools = <<>>
                 /\ getSummary(telemetryTools) = [installed |-> 0, skipped |-> 0, failed |-> 0]
                 /\ sent = <<>> /\ network = <<>>
       /\ ret = "none"

C21_Witness ==
    /\ pc = "collector"
    /\ telemetryEnabled
    /\ recordCalls = <<"installed", "failed", "installed">>
    /\ getSummary(telemetryTools) = [installed |-> 2, skipped |-> 0, failed |-> 1]

(***************************************************************************)
(* Prompts, skipped tools and the order of the installers                  *)
(* (checked under Spec)                                                    *)
(***************************************************************************)
\* C22: without a TTY promptInstall answers 'yes' whatever is on stdin, and
\* an install run, --interactive or not, has no controller, never waits at a
\* prompt, asks nothing, skips nothing, and has invoked the installer of
\* every tool the loop has passed.
C22_NoPromptWithoutTTY ==
    /\ \A key \in Keys : promptInstallFrom(FALSE, key) = "yes"
    /\ ~tty
           => /\ ~hasController
              /\ pc # "prompt"
              /\ CallsOf("prompt") = {}
              /\ skippedNames = <<>>
              /\ \A j \in DOMAIN selectedTools :
                     (j < i /\ selectedTools[j] \in INSTALLERS)
                     => InstallerInvoked(selectedTools[j])

C22_Witness ==
    /\ opts.interactive
    /\ ~tty
    /\ pc = "done"
    /\ ret = "true"
    /\ installedTools = TOOL_ORDER

(***************************************************************************)
(* Exit codes of the command line (checked under SpecCommands)             *)
(***************************************************************************)
\* main reached the switch and the switch called a command
CommandDispatched ==
    /\ ~showsHelp
    /\ ~showsVersion
    /\ argv.command \in Commands
    /\ argv.command = "restore" => argv.path

\* C23: once the process has exited, its code is 0 or 1; when a command was
\* dispatched the code is 0 exactly when the command returned true, and 1
\* when it returned false or threw; a cancelled install, an unknown command
\* and restore without a path exit with 1.
C23_ExitCodeFollowsCommandResult ==
    /\ exitCode \in {<<>>, <<0>>, <<1>>}
    /\ (exitCode # <<>> /\ CommandDispatched)
           => /\ commandResult \in {"true", "false", "threw"}
              /\ exitCode = <<0>> <=> commandResult = "true"
              /\ exitCode = <<1>> <=> commandResult \in {"false", "threw"}
    /\ (exitCode # <<>> /\ exit = "CancelledByUser") => exitCode = <<1>>
    /\ (exitCode # <<>> /\ ~showsHelp /\ ~showsVersion /\ ~CommandDispatched)
           => exitCode = <<1>>
    /\ (exitCode = <<>> /\ CommandDispatched /\ commandResult # "none") => ENABLED CliExit

C23_Witness ==
    /\ argv.command = "install"
    /\ exit = "CancelledByUser"
    /\ exitCode = <<1>>

(***************************************************************************)
(* registry.ts called directly, on strings taken character by character    *)
(* (SpecRegistry)                                                          *)
(***************************************************************************)
MaxInputLen == 4    \* characters in the string handed to parseToolList
MaxIdsLen == 3      \* ids in the list handed to validateToolIds
MaxRegistryCalls == 3   \* getAllToolIds and filterTools calls of one caller

\* the characters of the strings: a lower-case letter, an upper-case letter,
\* two kinds of white space, the separator
Chars == {"a", "B", " ", "\t", ","}

\* String.prototype.trim removes these
WhiteSpace == {" ", "\t"}

\* String.prototype.toLowerCase, one character
toLowerCaseChar(c) == IF c = "B" THEN "b" ELSE c

\* String.prototype.toLowerCase
toLowerCaseText(t) == IF t = <<>> THEN <<>> ELSE [k \in 1..Len(t) |-> toLowerCaseChar(t[k])]

RECURSIVE trimStart(_)
\* String.prototype.trimStart
trimStart(t) ==
    IF t # <<>> /\ Head(t) \in WhiteSpace THEN trimStart(Tail(t)) ELSE t

RECURSIVE trimEnd(_)
\* String.prototype.trimEnd
trimEnd(t) ==
    IF t # <<>> /\ t[Len(t)] \in WhiteSpace THEN trimEnd(SubSeq(t, 1, Len(t) - 1)) ELSE t

\* mutant: only the leading white space is removed
trimText_StartOnly(t) == trimStart(t)

\* String.prototype.trim
trimText(t) == trimEnd(trimStart(t))

RECURSIVE split(_)
\* input.split(','): the empty string gives one empty segment
split(t) ==
    IF "," \notin Range(t)
    THEN <<t>>
    ELSE LET k == CHOOSE j \in 1..Len(t) : t[j] = "," /\ \A h \in 1..(j - 1) : t[h] # ","
         IN <<SubSeq(t, 1, k - 1)>> \o split(SubSeq(t, k + 1, Len(t)))

RECURSIVE join(_)
\* list.join(',')
join(list) ==
    IF list = <<>> THEN <<>>
    ELSE IF Len(list) = 1 THEN list[1]
    ELSE list[1] \o <<",">> \o join(Tail(list))

\* part_001 415-420: parseToolList on a string given by its characters
parseToolListText(input) ==
    LET segments == split(input)
        mapped == [k \in 1..Len(segments) |-> toLowerCaseText(trimText(segments[k]))]
        nonEmpty(t) == Len(t) > 0
    IN SelectSeq(mapped, nonEmpty)

\* one entry of the history of calls
Returned(call, value) == [call |-> call, value |-> value]

\* no registry function has been called yet
InitRegistry ==
    /\ Idle
    /\ FilterIdle
    /\ UpdateIdle
    /\ ClosureIdle
    /\ UnitIdle
    /\ CliIdle

\* parseToolList(input)
RegistryParseToolList(input) ==
    /\ rcall = NoCall
    /\ rcall' = [fn |-> "parseToolList", arg |-> input]
    /\ rresults' = <<Returned(rcall', parseToolListText(input))>>
    /\ UNCHANGED <<installVars, filterVars, updateVars, closureVars, cliVars, log, recordCalls, notice, keysPressed,
                   canonical, held>>

\* parseToolList(result.join(',')) on the list the first call returned
RegistryParseJoined ==
    /\ rcall.fn = "parseToolList"
    /\ Len(rresults) = 1
    /\ rcall' = [fn |-> "parseToolList", arg |-> join(rresults[1].value)]
    /\ rresults' = Append(rresults,
                          Returned(rcall', parseToolListText(join(rresults[1].value))))
    /\ UNCHANGED <<installVars, filterVars, updateVars, closureVars, cliVars, log, recordCalls, notice, keysPressed,
                   canonical, held>>

\* ids handed to validateToolIds and getToolPromptInfo: tools of the
\* catalog, ids the tests use for unknown tools, keys of Object.prototype
LookupIds == {"zsh", "fzf", "unknown", "unknown-tool", "constructor", "__proto__"}

\* validateToolIds(toolIds)
RegistryValidateToolIds(toolIds) ==
    /\ rcall = NoCall
    /\ rcall' = [fn |-> "validateToolIds", arg |-> toolIds]
    /\ rresults' = <<Returned(rcall', validateToolIds(toolIds))>>
    /\ UNCHANGED <<installVars, filterVars, updateVars, closureVars, cliVars, log, recordCalls, notice, keysPressed,
                   canonical, held>>

\* getToolPromptInfo(toolId)
RegistryGetToolPromptInfo(toolId) ==
    /\ rcall = NoCall
    /\ rcall' = [fn |-> "getToolPromptInfo", arg |-> toolId]
    /\ rresults' = <<Returned(rcall', getToolPromptInfo(toolId))>>
    /\ UNCHANGED <<installVars, filterVars, updateVars, closureVars, cliVars, log, recordCalls, notice, keysPressed,
                   canonical, held>>

\* the entries of the history that are calls of `fn`
CallsTo(fn) == {k \in DOMAIN rresults : rresults[k].call.fn = fn}

\* a caller may go on calling getAllToolIds and filterTools
MayCallAgain ==
    /\ rcall.fn \in {"none", "getAllToolIds", "filterTools"}
    /\ Cardinality(CallsTo("getAllToolIds") \cup CallsTo("filterTools")) < MaxRegistryCalls

\* getAllToolIds()
RegistryGetAllToolIds ==
    /\ MayCallAgain
    /\ rcall' = [fn |-> "getAllToolIds", arg |-> <<>>]
    /\ held' = getAllToolIds(canonical)
    /\ rresults' = Append(rresults, Returned(rcall', held'.content))
    /\ UNCHANGED <<installVars, filterVars, updateVars, closureVars, cliVars, log, recordCalls, notice, keysPressed,
                   canonical>>

\* part_001 370, 374, 381, 386, 392: filterTools reads TOOL_ORDER through a
\* spread and through filter, so what it returns is a new array holding, in
\* the order the canonical array has at the time, the ids it selects
filterToolsOver(order, options) ==
    LET selected == Range(filterTools(options))
        Selected(id) == id \in selected
    IN [shared |-> FALSE, content |-> SelectSeq(order, Selected), touched |-> FALSE]

\* requests of a caller that calls filterTools more than once
RepeatedRequests ==
    {NoRequest, [tools |-> <<"nodejs">>, exclude |-> <<"fzf">>, minimal |-> TRUE]}

\* filterTools(options)
RegistryFilterTools(options) ==
    /\ MayCallAgain
    /\ rcall' = [fn |-> "filterTools", arg |-> options]
    /\ held' = filterToolsOver(canonical, options)
    /\ rresults' = Append(rresults, Returned(rcall', held'.content))
    /\ UNCHANGED <<installVars, filterVars, updateVars, closureVars, cliVars, log, recordCalls, notice, keysPressed,
                   canonical>>

\* Array.prototype.push('x') and Array.prototype.reverse() on a list
mutated(op, list) ==
    IF op = "push" THEN Append(list, "x")
    ELSE [k \in 1..Len(list) |-> list[Len(list) + 1 - k]]

\* the caller changes in place the array its last call returned; when that
\* array is the canonical array, the canonical array changes with it; the
\* history keeps what the caller did and what its array holds afterwards
RegistryCallerMutates(op) ==
    /\ ~held.touched
    /\ held.content # <<>>
    /\ held' = [held EXCEPT !.content = mutated(op, held.content), !.touched = TRUE]
    /\ canonical' = IF held.shared THEN held'.content ELSE canonical
    /\ rresults' = Append(rresults, Returned([fn |-> op, arg |-> <<>>], held'.content))
    /\ UNCHANGED <<installVars, filterVars, updateVars, closureVars, cliVars, log, recordCalls, notice, keysPressed,
                   rcall>>

NextRegistry ==
    \/ \E input \in BSeq(Chars, MaxInputLen) : RegistryParseToolList(input)
    \/ RegistryParseJoined
    \/ \E toolIds \in BSeq(LookupIds, MaxIdsLen) : RegistryValidateToolIds(toolIds)
    \/ \E toolId \in LookupIds : RegistryGetToolPromptInfo(toolId)
    \/ RegistryGetAllToolIds
    \/ \E options \in RepeatedRequests : RegistryFilterTools(options)
    \/ \E op \in {"push", "reverse"} : RegistryCallerMutates(op)

SpecRegistry == InitRegistry /\ [][NextRegistry]_vars

\* the letters of a string, lower-cased, without white space and separators
RECURSIVE Letters(_)
Letters(t) ==
    IF t = <<>> THEN <<>>
    ELSE IF Head(t) \in WhiteSpace \cup {","} THEN Letters(Tail(t))
    ELSE <<toLowerCaseChar(Head(t))>> \o Letters(Tail(t))

\* the comma-separated segments of a string that hold more than white space
FilledSegments(t) == {k \in DOMAIN split(t) : Range(split(t)[k]) \ WhiteSpace # {}}

\* C24: what parseToolList returns has no empty element and no element with a
\* comma, an upper-case letter or white space at either end; it has one
\* element per segment that holds more than white space and, read in order,
\* the letters of the input; the empty string gives the empty list; and
\* parsing the comma-joined result returns the same list.
C24_ParseToolListNormalises ==
    rcall.fn = "parseToolList"
    => LET input == rcall.arg
           result == rresults[Len(rresults)].value
       IN /\ \A k \in DOMAIN result :
                 /\ result[k] # <<>>
                 /\ "," \notin Range(result[k])
                 /\ "B" \notin Range(result[k])
                 /\ Head(result[k]) \notin WhiteSpace
                 /\ result[k][Len(result[k])] \notin WhiteSpace
          /\ Len(result) = Cardinality(FilledSegments(input))
          /\ Letters(join(result)) = Letters(input)
          /\ input = <<>> => result = <<>>
          /\ Len(rresults) = 2 => rresults[2].value = rresults[1].value

C24_Witness ==
    /\ rcall.fn = "parseToolList"
    /\ Len(rresults) = 2
    /\ rresults[1].value = <<<<"b">>, <<"a">>>>
    /\ rresults[2].value = rresults[1].value

\* C25: validateToolIds partitions its argument: valid is the subsequence of
\* the ids that are tool ids of the catalog, invalid the subsequence of the
\* others, and an id is reported valid exactly when it is a catalog id.
C25_ValidateToolIdsPartitions ==
    rcall.fn = "validateToolIds"
    => LET toolIds == rcall.arg
           result == rresults[Len(rresults)].value
           InCatalog(id) == id \in ToolIds
           NotInCatalog(id) == id \notin ToolIds
       IN /\ result.valid = SelectSeq(toolIds, InCatalog)
          /\ result.invalid = SelectSeq(toolIds, NotInCatalog)
          /\ \A id \in Range(toolIds) : id \in Range(result.valid) <=> id \in ToolIds

\* C26: whatever a caller does to the arrays it was given, the canonical
\* order stays TOOL_ORDER, every getAllToolIds call returns TOOL_ORDER, every
\* filterTools call returns what filterTools selects for its request, and
\* two filterTools calls with the same request return the same list.
C26_SelectionHasNoHiddenState ==
    /\ canonical = TOOL_ORDER
    /\ \A k \in CallsTo("getAllToolIds") : rresults[k].value = TOOL_ORDER
    /\ \A k \in CallsTo("filterTools") :
           rresults[k].value = filterTools(rresults[k].call.arg)
    /\ \A j, k \in CallsTo("filterTools") :
           rresults[j].call.arg = rresults[k].call.arg
           => rresults[j].value = rresults[k].value

\* the caller pushed an element on the list getAllToolIds gave it, then
\* called getAllToolIds and filterTools
C26_Witness ==
    /\ Len(rresults) = 4
    /\ rresults[1].call.fn = "getAllToolIds"
    /\ rresults[2].call.fn = "push" /\ rresults[2].value = Append(TOOL_ORDER, "x")
    /\ rresults[3].call.fn = "getAllToolIds" /\ rresults[3].value = TOOL_ORDER
    /\ rresults[4].call.fn = "filterTools" /\ rresults[4].value = TOOL_ORDER

\* C27: getToolPromptInfo throws for every id that is not in the catalog and
\* returns name, description, changes and critical of the tool for every id
\* that is.
C27_GetToolPromptInfoThrowsOnUnknown ==
    rcall.fn = "getToolPromptInfo"
    => LET toolId == rcall.arg
           result == rresults[Len(rresults)].value
       IN /\ toolId \notin ToolIds => result.threw
          /\ toolId \in ToolIds
                 => /\ ~result.threw
                    /\ result.name = TOOLS[toolId].name
                    /\ result.description = DETAILS[toolId].description
                    /\ result.changes = DETAILS[toolId].changes
                    /\ result.critical = TOOLS[toolId].critical

(***************************************************************************)
(* install() in a build whose INSTALLERS map lacks entries (SpecPartial)   *)
(***************************************************************************)
\* the entries a build may lack: two critical tools and one that is not
MissingInstallers == {"zsh", "asdf", "eza"}

\* install() called, on a TTY or not, with telemetry on, in a build whose
\* INSTALLERS map lacks at least one entry
InitPartial ==
    /\ pc = "start"
    /\ opts \in [skipBackup : BOOLEAN, dryRun : {FALSE}, interactive : BOOLEAN,
                 minimal : {FALSE}, noTelemetry : {FALSE},
                 tools : BSeq(ToolsTokens \ {"Bogus"}, MaxToolsArg) \ {<<>>},
                 exclude : {<<>>}]
    /\ tty \in BOOLEAN
    /\ telemetryEnv = "unset"
    /\ installers \in {INSTALLERS \ missing : missing \in (SUBSET MissingInstallers) \ {{}}}
    /\ running = {}
    /\ selectedTools = <<>>
    /\ i = 1
    /\ hasController = FALSE
    /\ installAll = FALSE
    /\ skippedNames = <<>>
    /\ installedTools = <<>>
    /\ failedTools = <<>>
    /\ skippedTools = <<>>
    /\ telemetryTools = <<>>
    /\ sent = <<>>
    /\ calls = <<>>
    /\ ret = "none"
    /\ exit = "none"
    /\ log = <<>>
    /\ network = <<>>
    /\ FilterIdle
    /\ UpdateIdle
    /\ ClosureIdle
    /\ UnitIdle
    /\ Dispatched("install")

SpecPartial == InitPartial /\ [][Next]_vars

\* number of entries of a list that satisfy a test
Count(list, Test(_)) == Cardinality({k \in DOMAIN list : Test(list[k])})

\* the loop has passed the selected tool at position j
Passed(j) == j < i

\* C28: for a selected tool without an installer no prompt is shown and no
\* installer is called, the tool is never in the failed or the installed
\* bucket, and once the loop has passed it the tool is in the skipped bucket
\* exactly once with the warning logged; the run is never waiting at a prompt
\* or in an installer for such a tool, a run that aborts does so on a tool
\* that has an installer, and a completed run lists the tool as skipped and
\* has recorded it once, as skipped, for telemetry.
C28_NoInstallerMeansSkipped ==
    /\ \A j \in DOMAIN selectedTools :
           selectedTools[j] \notin installers
           => LET toolId == selectedTools[j]
                  IsTool(id) == id = toolId
                  Recorded(t) == t.toolId = toolId
                  Warned(l) == l.text = "No installer found, skipping..."
                               /\ l.ids = <<NameOf(toolId)>>
              IN /\ \A k \in DOMAIN calls : calls[k].id # toolId
                 /\ ~Includes(failedTools, toolId)
                 /\ ~Includes(installedTools, toolId)
                 /\ Count(skippedTools, IsTool) = (IF Passed(j) THEN 1 ELSE 0)
                 /\ Count(log, Warned) = (IF Passed(j) THEN 1 ELSE 0)
                 /\ pc \in {"prompt", "installer"} => i # j
                 /\ exit \in {"CriticalFailed", "CriticalDeclined", "CancelledByUser",
                              "Exception"} => i # j
                 /\ exit = "Completed"
                        => /\ Passed(j)
                           /\ \E k \in DOMAIN log : /\ log[k].text = "Skipped"
                                                    /\ Includes(log[k].ids, NameOf(toolId))
                           /\ Count(telemetryTools, Recorded) = 1
                           /\ \A k \in DOMAIN telemetryTools :
                                  Recorded(telemetryTools[k])
                                  => telemetryTools[k].status = "skipped"
    /\ running \subseteq installers

\* an interactive run on a TTY in a build without an installer for zsh: zsh,
\* critical, was skipped without a prompt and the run completed
C28_Witness ==
    /\ hasController
    /\ "zsh" \notin installers
    /\ selectedTools = <<"zsh", "oh-my-zsh", "antigen">>
    /\ exit = "Completed"
    /\ ret = "true"
    /\ skippedTools = <<"zsh">>
    /\ installedTools = <<"oh-my-zsh", "antigen">>
    /\ \A k \in DOMAIN calls : calls[k].id # "zsh"

(***************************************************************************)
(* Declined tools and the order of the installers (checked under Spec)     *)
(***************************************************************************)
\* C29: in a completed interactive install each tool the user declined is
\* listed exactly once, by display name, in the Skipped line of the summary
\* and, with telemetry on, has exactly one record in the telemetry tool list,
\* with status 'skipped'.
C29_DeclinedToolListedAndRecordedOnce ==
    (exit = "Completed" /\ hasController)
    => \A toolId \in DeclinedIds :
           LET IsName(name) == name = NameOf(toolId)
               Recorded(t) == t.toolId = toolId
           IN /\ \E k \in DOMAIN log : /\ log[k].text = "Skipped"
                                       /\ Count(log[k].ids, IsName) = 1
              /\ telemetryEnabled
                     => /\ Count(telemetryTools, Recorded) = 1
                        /\ \A k \in DOMAIN telemetryTools :
                               Recorded(telemetryTools[k])
                               => telemetryTools[k].status = "skipped"

\* the ids of the installer calls made so far, in call order, followed by the
\* id of the installer that is running
RECURSIVE InstallerIds(_)
InstallerIds(cs) ==
    IF cs = <<>> THEN <<>>
    ELSE (IF Head(cs).kind = "installer" THEN <<Head(cs).id>> ELSE <<>>)
         \o InstallerIds(Tail(cs))

\* C30: at most one installer is in progress at any moment, and it is the
\* installer of the current tool; no prompt is open and nothing else of the
\* run happens while one is running; each selected tool's installer is
\* invoked at most once; and the invoked installers, the running one
\* included, follow one another in the order of TOOL_ORDER.
C30_InstallersRunOneAtATime ==
    /\ Cardinality(running) <= 1
    /\ running # {} <=> pc = "installer"
    /\ pc = "installer" => running = {selectedTools[i]}
    /\ pc = "prompt" => running = {}
    /\ LET invoked == InstallerIds(calls)
                      \o (IF pc = "installer" THEN <<selectedTools[i]>> ELSE <<>>)
       IN /\ NoDuplicates(invoked)
          /\ IsSubsequence(invoked, TOOL_ORDER)
          /\ Range(invoked) \subseteq Range(selectedTools)

\* a run without prompts in which the installer of the fourth selected tool
\* is running after three installers returned
C30_Witness ==
    /\ pc = "installer"
    /\ running = {"eza"}
    /\ InstallerIds(calls) = <<"zsh", "oh-my-zsh", "antigen">>

(***************************************************************************)
(* What a successful run guarantees; telemetry of a run (checked under     *)
(* Spec)                                                                   *)
(***************************************************************************)
\* C31: in a run without --dry-run that returned true, every selected
\* critical tool had its installer invoked and returning success: it is in
\* the installed bucket, not in the skipped or failed bucket, and was not
\* declined at a prompt.
C31_TrueOnlyIfCriticalToolsInstalled ==
    (pc = "done" /\ ret = "true" /\ ~opts.dryRun)
    => \A toolId \in Range(selectedTools) :
           IsCritical(toolId)
           => /\ \E k \in DOMAIN calls : /\ IsInstallerCall(calls[k], "ok")
                                        /\ calls[k].id = toolId
              /\ Includes(installedTools, toolId)
              /\ ~Includes(skippedTools, toolId)
              /\ ~Includes(failedTools, toolId)
              /\ \A k \in DOMAIN calls : ~(IsPrompt(calls[k], "no") /\ calls[k].id = toolId)

\* an interactive run that installed asdf, critical, had Node.js declined
\* and returned true
C31_Witness ==
    /\ pc = "done"
    /\ ret = "true"
    /\ hasController
    /\ selectedTools = <<"asdf", "nodejs">>
    /\ installedTools = <<"asdf">>
    /\ \E k \in DOMAIN calls : IsPrompt(calls[k], "no") /\ calls[k].id = "nodejs"

\* C32: a run with telemetry enabled that got past tool selection never has
\* sent more than one telemetry event and, when install has returned -
\* completed, critical installer failed, critical tool declined, backup
\* failed, config write failed or user quit - has sent exactly one.
C32_OneTelemetryEventPerRun ==
    (telemetryEnabled /\ ReachedInstallation)
    => /\ Len(sent) <= 1
       /\ (pc = "done" /\ exit \in {"Completed", "CriticalFailed", "CriticalDeclined",
                                    "BackupFailed", "ConfigWriteFailed", "CancelledByUser"})
              => Len(sent) = 1

\* the three ways install switches telemetry off
TelemetryOptedOut ==
    \/ opts.noTelemetry
    \/ opts.dryRun
    \/ telemetryEnv = "0" \/ telemetryEnv = "false" \/ telemetryEnv = "off"

\* C33: a collector configured with --no-telemetry, with --dry-run or under
\* BETTER_SHELL_TELEMETRY equal to '0', 'false' or 'off' is disabled: it
\* stores no tool result, sends no payload, and the first-run notice is
\* neither printed nor marked as shown; under any other value of the
\* variable, or none, and without the two flags, the collector is enabled:
\* every recorded result is stored and the notice is printed and marked
\* exactly when the marker file was missing.
C33_TelemetryOffByFlagEnvOrDryRun ==
    pc = "collector"
    => /\ telemetryEnabled <=> ~TelemetryOptedOut
       /\ TelemetryOptedOut
              => /\ telemetryTools = <<>>
                 /\ sent = <<>> /\ network = <<>>
                 /\ ~notice.shown /\ ~notice.marked
       /\ ~TelemetryOptedOut
              => /\ Len(telemetryTools) = Len(recordCalls)
                 /\ notice.shown = ~notice.seen
                 /\ notice.marked = ~notice.seen

\* opted out through the environment alone, on a first run, after a
\* recordTool and a send
C33_Witness ==
    /\ pc = "collector"
    /\ ~opts.noTelemetry /\ ~opts.dryRun /\ telemetryEnv = "false"
    /\ ~notice.seen
    /\ Len(recordCalls) = 2
    /\ calls = <<>> /\ sent = <<>>

\* an unrecognised value leaves telemetry on: the notice is shown, results
\* are stored and a payload goes out
C33_WitnessOtherValue ==
    /\ pc = "collector"
    /\ telemetryEnv = "OFF"
    /\ notice.shown /\ notice.marked
    /\ Len(telemetryTools) = 2
    /\ sent = <<"completed">>

\* C34: a filterTools result for a request without an exclude list - with or
\* without an explicit tool list, with or without minimal - holds, for each
\* of its tools, every declared dependency of that tool at an earlier
\* position, so a run that walks the result meets the dependencies first.
C34_ClosedWithoutExclude ==
    (fpc = "returned" /\ request.exclude = <<>>)
    => \A j \in DOMAIN filtered :
           \A dep \in Range(TOOLS[filtered[j]].dependencies) :
               \E k \in 1..(j - 1) : filtered[k] = dep

\* an explicit list with minimal whose tool has two dependencies
C34_Witness ==
    /\ fpc = "returned"
    /\ request = [tools |-> <<"antigen">>, exclude |-> <<>>, minimal |-> TRUE]
    /\ filtered = <<"zsh", "oh-my-zsh", "antigen">>

(***************************************************************************)
(* SpecSelection: install() with requests that may select nothing          *)
(***************************************************************************)
\* --tools and --exclude tokens under which the selection can come out
\* empty: a tool that is not minimal, a tool that can be excluded, and a key
\* validateToolIds lets through although TOOL_ORDER does not hold it
SelectionToolsTokens == {"fonts", " eza ", "constructor"}
SelectionExcludeTokens == {"eza", "fonts"}

InitSelection ==
    /\ pc = "start"
    /\ opts \in [skipBackup : BOOLEAN, dryRun : BOOLEAN, interactive : BOOLEAN,
                 minimal : BOOLEAN, noTelemetry : {FALSE},
                 tools : BSeq(SelectionToolsTokens, MaxToolsArg),
                 exclude : BSeq(SelectionExcludeTokens, MaxExcludeArg)]
    /\ tty \in BOOLEAN
    /\ (opts.interactive /\ tty) => Len(selectionOf(opts)) <= MaxInteractiveTools
    /\ telemetryEnv = "unset"
    /\ installers = INSTALLERS
    /\ running = {}
    /\ selectedTools = <<>>
    /\ i = 1
    /\ hasController = FALSE
    /\ installAll = FALSE
    /\ skippedNames = <<>>
    /\ installedTools = <<>>
    /\ failedTools = <<>>
    /\ skippedTools = <<>>
    /\ telemetryTools = <<>>
    /\ sent = <<>>
    /\ calls = <<>>
    /\ ret = "none"
    /\ exit = "none"
    /\ log = <<>>
    /\ network = <<>>
    /\ FilterIdle
    /\ UpdateIdle
    /\ ClosureIdle
    /\ UnitIdle
    /\ Dispatched("install")

SpecSelection == InitSelection /\ [][Next]_vars

\* both lists passed validation
ListsAccepted ==
    /\ validateToolIds(parseToolList(opts.tools)).invalid = <<>>
    /\ validateToolIds(parseToolList(opts.exclude)).invalid = <<>>

\* C35: when both lists pass validation and filterTools returns the empty
\* list, install does not throw: it logs the error "No tools selected for
\* installation" and returns false, having called neither the backup, nor an
\* installer, nor the config writer, and having prompted for and recorded
\* nothing; and install ends as "nothing selected" in no other case.
C35_EmptySelectionReturnsFalse ==
    /\ (pc # "start" /\ ListsAccepted /\ selectionOf(opts) = <<>>)
           => /\ pc = "done" /\ ret = "false" /\ exit = "NothingSelected"
              /\ log = <<LogLine("error", "No tools selected for installation", <<>>, 0)>>
              /\ calls = <<>>
              /\ telemetryTools = <<>> /\ sent = <<>>
              /\ installedTools = <<>> /\ failedTools = <<>> /\ skippedTools = <<>>
    /\ exit = "NothingSelected" => (ListsAccepted /\ selectionOf(opts) = <<>>)

\* minimal removes the only requested tool, on a run that would otherwise
\* take a backup
C35_Witness ==
    /\ exit = "NothingSelected"
    /\ opts.tools = <<"fonts">> /\ opts.minimal /\ opts.exclude = <<>>
    /\ ~opts.skipBackup /\ ~opts.dryRun

\* everything selected is excluded
C35_WitnessExcluded ==
    /\ exit = "NothingSelected"
    /\ opts.tools = <<" eza ">> /\ opts.exclude = <<"eza">> /\ ~opts.minimal

\* every id of the --tools value of update passed validation
UpdateListAccepted == validateToolIds(parseToolList(uopts.tools)).invalid = <<>>

\* the statuses of the results so far
ResultStatuses == [k \in DOMAIN uResults |-> uResults[k].status]

C37_UpdateFollowsToolOrder ==
    /\ IsSubsequence(uToolIds, TOOL_ORDER)
    /\ IsSubsequence(selectedTools, TOOL_ORDER)

\* C38: in a dry run of update every result is 'updated' with message
\* 'Dry run' or 'not-installed', fonts always being 'updated'; no tool got as
\* far as the 'Updating ...' step behind which the update commands are; one
\* 'Would update' line is logged per 'updated' result; and update, once it
\* has returned from a request whose ids were all accepted, returned true.
C38_DryRunUpdatesNothing ==
    uopts.dryRun
    => /\ \A k \in DOMAIN uResults :
              /\ uResults[k].status \in {"updated", "not-installed"}
              /\ uResults[k].status = "updated" => uResults[k].message = "Dry run"
              /\ uResults[k].toolId = "fonts" => uResults[k].status = "updated"
       /\ \A k \in DOMAIN log : log[k].text # "Updating..."
       /\ upc = "loop"
              => Cardinality({k \in DOMAIN log : log[k].text = "Would update"})
                     = Cardinality({k \in DOMAIN uResults : uResults[k].status = "updated"})
       /\ (upc = "done" /\ UpdateListAccepted) => uRet = "true"

C38_Witness ==
    /\ uopts.dryRun
    /\ upc = "done"
    /\ uopts.tools = <<"fonts", "eza">>
    /\ ResultStatuses = <<"updated", "not-installed">>
    /\ uRet = "true"

(***************************************************************************)
(* SpecSession: one InteractiveInstaller called directly                   *)
(***************************************************************************)
MaxSessionCalls == 3
MaxIgnoredKeys == 2

\* the tools shouldInstall is asked about
SessionTools == {"fzf", "eza"}

\* what a session leaves alone
besideSession == <<filterVars, updateVars, closureVars, cliVars, recordCalls, notice,
                   rresults, canonical, opts, telemetryEnv, installers, selectedTools, i,
                   installedTools, failedTools, skippedTools, telemetryTools, sent, ret,
                   exit, network, running>>

InitSession ==
    /\ Idle
    /\ FilterIdle
    /\ UpdateIdle
    /\ ClosureIdle
    /\ UnitIdle
    /\ CliIdle

\* new InteractiveInstaller(), in a process with or without a terminal
SessionCreate(isTty) ==
    /\ pc = "idle"
    /\ pc' = "session"
    /\ hasController' = TRUE
    /\ tty' = isTty
    /\ UNCHANGED <<besideSession, installAll, skippedNames, calls, rcall, held,
                   keysPressed, log>>

\* number of shouldInstall calls begun
SessionCalls == Len(calls) + (IF pc = "keypress" THEN 1 ELSE 0)

\* prompt.ts 173-179: shouldInstall(tool) up to the first keypress
\* promptInstall waits for; with the latch set, or without a TTY, the call
\* returns true at once
SessionShouldInstall(toolId) ==
    /\ pc = "session"
    /\ SessionCalls < MaxSessionCalls
    /\ rcall' = [fn |-> "shouldInstall", arg |-> <<toolId>>]
    /\ keysPressed' = <<>>
    /\ IF ~shouldPrompt
       THEN /\ calls' = Append(calls, Call(IF installAll THEN "latched" ELSE "prompt",
                                            toolId, "yes"))
            /\ log' = IF installAll
                      THEN Append(log, LogLine("step", "Installing...",
                                               <<TOOLS[toolId].name>>, 0))
                      ELSE log
            /\ UNCHANGED pc
       ELSE /\ pc' = "keypress"
            /\ UNCHANGED <<calls, log>>
    /\ UNCHANGED <<besideSession, hasController, tty, installAll, skippedNames, held>>

\* one round of the loop of promptInstall and, on a recognised key, the
\* switch of shouldInstall (prompt.ts 181-193)
SessionKeypress(pressed) ==
    /\ pc = "keypress"
    /\ LET toolId == rcall.arg[1]
           choice == promptInstallFrom(tty, readKeypress(pressed))
       IN /\ keysPressed' = Append(keysPressed, pressed)
          /\ IF choice = "waiting"
             THEN /\ Len(keysPressed) < MaxIgnoredKeys
                  /\ UNCHANGED <<pc, calls, installAll, skippedNames, log>>
             ELSE /\ pc' = "session"
                  /\ calls' = Append(calls, Call("prompt", toolId, choice))
                  /\ installAll' = (installAll \/ choice = "all")
                  /\ skippedNames' = IF choice = "no"
                                     THEN Append(skippedNames, TOOLS[toolId].name)
                                     ELSE skippedNames
                  /\ log' = IF choice = "no"
                            THEN Append(log, LogLine("dim", "Skipping",
                                                     <<TOOLS[toolId].name>>, 0))
                            ELSE log
    /\ UNCHANGED <<besideSession, hasController, tty, rcall, held>>

\* const skipped = installer.getSkippedTools()
SessionGetSkippedTools ==
    /\ pc = "session"
    /\ held' = getSkippedTools(skippedNames)
    /\ UNCHANGED <<besideSession, pc, hasController, tty, installAll, skippedNames, calls,
                   rcall, keysPressed, log>>

\* skipped.push('x') by the caller; when the list is the session's own, the
\* session's list changes with it
SessionCallerMutates ==
    /\ pc = "session"
    /\ ~held.touched
    /\ held' = [held EXCEPT !.content = mutated("push", held.content), !.touched = TRUE]
    /\ skippedNames' = IF held.shared THEN held'.content ELSE skippedNames
    /\ UNCHANGED <<besideSession, pc, hasController, tty, installAll, calls, rcall,
                   keysPressed, log>>

NextSession ==
    \/ \E isTty \in BOOLEAN : SessionCreate(isTty)
    \/ \E toolId \in SessionTools : SessionShouldInstall(toolId)
    \/ \E pressed \in Keys : SessionKeypress(pressed)
    \/ SessionGetSkippedTools
    \/ SessionCallerMutates

SpecSession == InitSession /\ [][NextSession]_vars

\* the display names of the tools answered 'no', in the order of the answers
RECURSIVE NamesAnsweredNo(_)
NamesAnsweredNo(cs) ==
    IF cs = <<>> THEN <<>>
    ELSE (IF Head(cs).kind = "prompt" /\ Head(cs).result = "no"
          THEN <<TOOLS[Head(cs).id].name>> ELSE <<>>) \o NamesAnsweredNo(Tail(cs))

\* s is the beginning of t
IsPrefix(s, t) == Len(s) <= Len(t) /\ SubSeq(t, 1, Len(s)) = s

\* C39: at every point of a session, whatever calls were made and whatever a
\* caller did with a list getSkippedTools gave it, the skip list of the
\* session is the names of the tools answered 'no' in the order of the
\* answers; a list a caller holds is the skip list as it was when handed
\* out, followed by what the caller pushed.
C39_SkipListIsNamesAnsweredNo ==
    pc \in {"session", "keypress"}
    => /\ skippedNames = NamesAnsweredNo(calls)
       /\ ~held.touched => IsPrefix(held.content, skippedNames)
       /\ (held.touched /\ held # NoArray)
              => /\ held.content[Len(held.content)] = "x"
                 /\ IsPrefix(SubSeq(held.content, 1, Len(held.content) - 1), skippedNames)

\* no, then all, then a latched call, then getSkippedTools and a push on
\* the returned list
C39_Witness ==
    /\ pc = "session"
    /\ Len(calls) = 3
    /\ calls[1] = Call("prompt", "eza", "no")
    /\ calls[2].result = "all"
    /\ calls[3].kind = "latched"
    /\ held.touched /\ held.content = <<TOOLS["eza"].name, "x">>
    /\ skippedNames = <<TOOLS["eza"].name>>

\* the answer a key stands for
KeyChoice(key) ==
    CASE key \in {"y", "Y", "\r", "\n"} -> "yes"
      [] key \in {"n", "N"} -> "no"
      [] key \in {"a", "A"} -> "all"
      [] key \in {"q", "Q", CtrlC} -> "quit"
      [] OTHER -> "none"

\* the session as far as shouldInstall can change it
SessionState == <<installAll, skippedNames, calls, log, held>>

\* C40: on a TTY, while promptInstall waits, every key read so far is an
\* unrecognised one and reading another unrecognised key changes nothing of
\* the session; when promptInstall has returned, the last key read is y, Y,
\* Enter, n, N, a, A, q, Q or Ctrl+C, every key before it is unrecognised,
\* and the answer is the one the last key stands for.
C40_OnlyRecognisedKeysAnswer ==
    /\ [](/\ (tty /\ pc = "keypress")
                 => \A k \in DOMAIN keysPressed : KeyChoice(keysPressed[k]) = "none"
          /\ (tty /\ pc = "session" /\ keysPressed # <<>>)
                 => /\ \A k \in 1..(Len(keysPressed) - 1) :
                           KeyChoice(keysPressed[k]) = "none"
                    /\ calls # <<>>
                    /\ calls[Len(calls)].kind = "prompt"
                    /\ calls[Len(calls)].result = KeyChoice(keysPressed[Len(keysPressed)]))
    /\ [][(pc = "keypress" /\ pc' = "keypress") => UNCHANGED SessionState]_vars

\* x, then x, then an upper-case N
C40_Witness ==
    /\ tty /\ pc = "session"
    /\ keysPressed = <<"x", "x", "N">>
    /\ calls = <<Call("prompt", "fzf", "no")>>
    /\ skippedNames = <<TOOLS["fzf"].name>>

====
